---------------------------- MODULE Spec2Model ----------------------------
(***************************************************************************)
(* Scroll-synchronised narrative widgets: VerticalTimeline,                *)
(* HorizontalTimeline and HighlightStepScrollytelling.                     *)
(*                                                                         *)
(* A widget is a React component.  Its state is the activeIndex useState   *)
(* cell, the scrollYProgress MotionValue, the values derived at render     *)
(* (stepCount, the memoised mediaGroups) and the getMediaKey prop.  Its    *)
(* operations are a render with new props, the [stepCount] effect, the     *)
(* "change" handler of scrollYProgress and the click handler scrollToStep, *)
(* which only calls window.scrollTo: the scroll observer reports the new   *)
(* position in a later step.                                               *)
(*                                                                         *)
(* Numbers.  A progress value is a rational; it is held as an integer      *)
(* numerator over the fixed denominator Den, which is a multiple of        *)
(* 1000 * n for every step count n <= 8 and of 10000, so that every        *)
(* boundary k/n, every click target (i + 0.001)/n and the literal 0.9999   *)
(* are exact.  Math.floor(x * m) of a progress x = a/Den is (a * m) \div   *)
(* Den.  The `steps` prop is held in halves, so Math.floor(steps) is       *)
(* h \div 2.                                                               *)
(***************************************************************************)
EXTENDS Integers, Sequences, FiniteSets

VARIABLES
    kind,             \* which component this is (fixed at mount)
    getMediaKey,      \* the getMediaKey prop: NoKey (omitted) or a key per step index
    stepCount,        \* const stepCount, as computed by the last render
    mediaGroups,      \* the useMemo'd buildMediaGroups(stepCount, resolveMediaKey)
    activeIndex,      \* useState(0)
    scrollYProgress,  \* current value of the scrollYProgress MotionValue (numerator over Den)
    effectPending,    \* the useEffect(..., [stepCount]) is scheduled and has not run yet
    windowScrollTo,   \* the window.scrollTo call that the scroll observer has not reported yet
    mapRoute,         \* the state of a MapRoute component (a record), see MapRoute below
    geo,              \* one call of a pure function: its arguments and its result
    sticky            \* the mounted StickySide components (a list of records), see StickySide below

vars == <<kind, getMediaKey, stepCount, mediaGroups, activeIndex,
          scrollYProgress, effectPending, windowScrollTo, mapRoute, geo, sticky>>

\* the variables of the scroll widget, of the MapRoute component, of the
\* pure functions and of StickySide; each specification below runs one of
\* them and leaves the others where they are
widgetVars == <<kind, getMediaKey, stepCount, mediaGroups, activeIndex,
                scrollYProgress, effectPending, windowScrollTo>>
NoMapRoute == [mounted |-> FALSE]
NoGeo == [op |-> "none"]
NoSticky == << >>
\* no call of window.scrollTo is waiting for its report; a call is <<top>>,
\* with top the section progress scrolled to (sectionTop 0, scrollRange 1)
NoScrollTo == << >>
NoWidget ==
    /\ kind = "none" /\ getMediaKey = << >> /\ stepCount = 0 /\ mediaGroups = << >>
    /\ activeIndex = 0 /\ scrollYProgress = 0 /\ effectPending = FALSE
    /\ windowScrollTo = NoScrollTo

---------------------------------------------------------------------------
(* Constants of the program *)

MAX_STEP_COUNT == 8
DEFAULT_STEP_COUNT == 5
HIGHLIGHT_MAX_STEP_COUNT == 6
HIGHLIGHT_DEFAULT_STEP_COUNT == 4

(* Bounds of the model *)

\* the `steps` prop ranges over the halves between -1 and MaxStepsProp
MaxStepsProp == 9

\* denominator of every progress value
Den == 840 * 1000

Min(a, b) == IF a <= b THEN a ELSE b
Max(a, b) == IF a >= b THEN a ELSE b

Kinds == {"vertical", "horizontal", "highlight"}
TimelineKinds == {"vertical", "horizontal"}

---------------------------------------------------------------------------
(* Inputs *)

\* the `steps` prop, in halves: -1, 0.5, 2.5 and 0, 1, ..., MaxStepsProp
StepsInputs == {-2, 1, 5} \cup {2 * n : n \in 0 .. MaxStepsProp}

\* an omitted getMediaKey prop (a keying is a non-empty sequence)
NoKey == << >>

\* mutant: the map key depends on the step
MapKeyPerStep == [i \in 1 .. MAX_STEP_COUNT |-> IF i = 1 THEN "map-route-0" ELSE "map-route"]

\* MapTimeline: const getMapMediaKey = () => MEDIA_KEY
MapKey == [i \in 1 .. MAX_STEP_COUNT |-> "map-route"]

\* README: getMediaKey={(index) => (index < 2 ? "intro" : "details")}
IntroDetailsKey == [i \in 1 .. MAX_STEP_COUNT |-> IF i - 1 < 2 THEN "intro" ELSE "details"]

\* a keying in which a key recurs non-adjacently
RecurringKey == [i \in 1 .. MAX_STEP_COUNT |-> IF i - 1 \in {0, 3, 4, 5} THEN "a" ELSE "b"]

\* getMediaKey props of the widget specification
KeyFns == {NoKey, MapKey, IntroDetailsKey, RecurringKey}

\* every keying of the steps by two keys
AllKeyFns == {NoKey} \cup [1 .. MAX_STEP_COUNT -> {"a", "b"}]

\* progress values delivered by the scroll observer: every k/m with
\* m <= MAX_STEP_COUNT, the value just below it, 0.9999 and its neighbours,
\* values outside [0,1], and positions scrollToStep scrolls to
Fractions == {(k * Den) \div m : k \in 0 .. MAX_STEP_COUNT, m \in 1 .. MAX_STEP_COUNT}
             \cap (0 .. Den)
Cap9999 == 9999 * (Den \div 10000)

\* scrollToStep: targetProgress = (clampedIndex + 0.001) / stepCount
TargetProgress(index, count) ==
    LET clampedIndex == Max(0, Min(index, count - 1))
    IN  (1000 * clampedIndex + 1) * (Den \div (1000 * count))

\* the targets of a click on the first and on the last node, for every
\* step count
ClickTargets ==
    {TargetProgress(i, c) : i \in {0, MAX_STEP_COUNT - 1}, c \in 1 .. MAX_STEP_COUNT}

ProgressInputs ==
    Fractions
    \cup {f - 1 : f \in Fractions \ {0}}
    \cup {Cap9999 - 1, Cap9999, Cap9999 + 1}
    \cup {-(Den \div 2), -1, Den + 1, 2 * Den}
    \cup ClickTargets

---------------------------------------------------------------------------
(* Pure functions of the program *)

\* const stepCount = Math.max(0, Math.min(MAX_STEP_COUNT, Math.floor(steps)))
MaxStepCountOf(k) == IF k = "highlight" THEN HIGHLIGHT_MAX_STEP_COUNT ELSE MAX_STEP_COUNT
DefaultStepsOf(k) ==
    2 * (IF k = "highlight" THEN HIGHLIGHT_DEFAULT_STEP_COUNT ELSE DEFAULT_STEP_COUNT)
StepCountOf(k, stepsHalves) == Max(0, Min(MaxStepCountOf(k), stepsHalves \div 2))

\* (index) => (getMediaKey ? getMediaKey(index) : index)
resolveMediaKey(keyFn, index) == IF keyFn = NoKey THEN index ELSE keyFn[index + 1]

\* mutant: the key is compared with the first group's key, not the last's
StartsNewGroupFirstKey(groups, mediaKey) ==
    \/ Len(groups) = 0
    \/ groups[1].key # mediaKey

\* if (!lastGroup || lastGroup.key !== mediaKey)
StartsNewGroup(groups, mediaKey) ==
    \/ Len(groups) = 0
    \/ groups[Len(groups)].key # mediaKey

\* groups.push({ key, startIndex: index, endIndex: index, stepIndices: [index] })
NewGroup(mediaKey, index) ==
    [key |-> mediaKey, startIndex |-> index, endIndex |-> index, stepIndices |-> <<index>>]

\* mutant: the index is not pushed onto stepIndices
ExtendGroupNoPush(lastGroup, index) == [lastGroup EXCEPT !.endIndex = index]

\* mutant: endIndex is not moved
ExtendGroupNoEnd(lastGroup, index) ==
    [lastGroup EXCEPT !.stepIndices = Append(@, index)]

\* lastGroup.endIndex = index; lastGroup.stepIndices.push(index)
ExtendGroup(lastGroup, index) ==
    [lastGroup EXCEPT !.endIndex = index, !.stepIndices = Append(@, index)]

RECURSIVE buildLoop(_, _, _, _)
buildLoop(index, count, keyFn, groups) ==
    IF ~(index < count) THEN groups
    ELSE LET mediaKey == resolveMediaKey(keyFn, index)
         IN  IF StartsNewGroup(groups, mediaKey)
             THEN buildLoop(index + 1, count, keyFn,
                            Append(groups, NewGroup(mediaKey, index)))
             ELSE buildLoop(index + 1, count, keyFn,
                            [groups EXCEPT ![Len(groups)] = ExtendGroup(@, index)])

buildMediaGroups(count, keyFn) == buildLoop(0, count, keyFn, <<>>)

\* const clamped = Math.max(0, Math.min(latest, 1))
Clamp01(latest) == Max(0, Min(latest, Den))

\* mutant: latest is used unclamped
TimelineNextIndexUnclamped(latest, count) ==
    Min(count - 1, (latest * (count - 1)) \div Den)

\* VerticalTimeline / HorizontalTimeline:
\*   Math.min(stepCount - 1, Math.floor(clamped * (stepCount - 1)))
TimelineNextIndex(latest, count) ==
    Min(count - 1, (Clamp01(latest) * (count - 1)) \div Den)

\* mutant: the timeline's rule, floor(clamped * (stepCount - 1))
HighlightNextIndexLinear(latest, count) ==
    Min(count - 1, (Clamp01(latest) * (count - 1)) \div Den)

\* HighlightStep:
\*   clampedIndex = Math.min(clamped, 0.9999)
\*   Math.min(stepCount - 1, Math.floor(clampedIndex * stepCount))
HighlightNextIndex(latest, count) ==
    LET clampedIndex == Min(Clamp01(latest), Cap9999)
    IN  Min(count - 1, (clampedIndex * count) \div Den)

NextIndex(k, latest, count) ==
    IF k = "highlight" THEN HighlightNextIndex(latest, count)
    ELSE TimelineNextIndex(latest, count)

\* mutant: the result is not clamped
groupProgressUnclamped(value, group, count) ==
    IF count = 0 THEN [num |-> 0, den |-> Den]
    ELSE LET groupSteps == Max(Len(group.stepIndices), 1)
         IN  [num |-> value * count - group.startIndex * Den, den |-> Den * groupSteps]

\* mutant: the difference is taken the wrong way round
groupProgressReversed(value, group, count) ==
    IF count = 0 THEN [num |-> 0, den |-> Den]
    ELSE LET groupSteps == Max(Len(group.stepIndices), 1)
             next == group.startIndex * Den - value * count
         IN  [num |-> Max(0, Min(next, Den * groupSteps)), den |-> Den * groupSteps]

\* TimelineMediaGroup / HighlightStepMediaGroup: the useTransform callback.
\* The result is the fraction num/den with den = Den * groupSteps.
groupProgress(value, group, count) ==
    IF count = 0 THEN [num |-> 0, den |-> Den]
    ELSE LET scaled == value * count
             groupSteps == Max(Len(group.stepIndices), 1)
             next == scaled - group.startIndex * Den
         IN  [num |-> Max(0, Min(next, Den * groupSteps)), den |-> Den * groupSteps]

\* const isActive = activeIndex >= group.startIndex && activeIndex <= group.endIndex
isActive(group) == activeIndex >= group.startIndex /\ activeIndex <= group.endIndex

\* if (!stepCount) return null; otherwise one node per step:
\* Array.from({ length: stepCount }, (_, index) => ...)
RenderedSteps == IF stepCount = 0 THEN {} ELSE 0 .. stepCount - 1

\* the progress handed to the MediaComponent of group number g
MediaProgress(g) == groupProgress(scrollYProgress, mediaGroups[g], stepCount)

\* the scrollProgress prop of every StepComponent: the scrollYProgress
\* MotionValue itself (scrollProgress={scrollYProgress})
StepScrollProgress == scrollYProgress

\* MapTimeline: const steps = route.length, handed on as the `steps` prop
\* (held in halves) of the timeline
MapTimelineSteps(routeLength) == 2 * routeLength

\* MapTimeline: const clampProgress = (value) => Math.min(1, Math.max(0, value)),
\* on a fraction num/den
clampProgress(value) == [num |-> Min(value.den, Max(0, value.num)), den |-> value.den]

\* MapTimelineMedia: the `progress` state handed to MapRoute,
\* clampProgress(scrollProgress.get()) of the media group's progress
MapTimelineProgress(g) == clampProgress(MediaProgress(g))

\* MapTimelineStep: routeItem = route[props.stepIndex]; null (no step
\* content) when the route has no such item
MapTimelineStepItems(routeLength) == {i \in RenderedSteps : i < routeLength}

---------------------------------------------------------------------------
(* Operations *)

\* mutant: the handler does not return early when stepCount is 0
OnChangeNoGuard(latest) == activeIndex' = NextIndex(kind, latest, stepCount)

\* mutant: the active index only moves forward
OnChangeForwardOnly(latest) ==
    IF stepCount = 0 THEN activeIndex' = activeIndex
    ELSE activeIndex' = Max(activeIndex, NextIndex(kind, latest, stepCount))

\* the body of the "change" handler of scrollYProgress
OnChange(latest) ==
    IF stepCount = 0 THEN activeIndex' = activeIndex
    ELSE activeIndex' = NextIndex(kind, latest, stepCount)

\* mount: useState(0), motionValue(0), first render with the given props;
\* the [stepCount] effect is scheduled
MountWith(keyFns) ==
    /\ kind \in Kinds
    /\ getMediaKey \in keyFns
    /\ \E s \in StepsInputs \cup {DefaultStepsOf(kind)} :
          stepCount = StepCountOf(kind, s)
    /\ mediaGroups = buildMediaGroups(stepCount, getMediaKey)
    /\ activeIndex = 0
    /\ scrollYProgress = 0
    /\ effectPending = TRUE
    /\ windowScrollTo = NoScrollTo
    /\ mapRoute = NoMapRoute
    /\ geo = NoGeo
    /\ sticky = NoSticky

Init == MountWith(KeyFns)

\* a render with a new `steps` prop; React runs the scheduled effect of the
\* last render before it renders again
SetSteps(s) ==
    /\ ~effectPending
    /\ stepCount' = StepCountOf(kind, s)
    /\ stepCount' # stepCount
    /\ mediaGroups' = buildMediaGroups(stepCount', getMediaKey)
    /\ effectPending' = TRUE
    /\ UNCHANGED <<kind, getMediaKey, activeIndex, scrollYProgress, windowScrollTo, mapRoute, geo, sticky>>

\* a render with a new getMediaKey prop
SetMediaKey(keyFn) ==
    /\ ~effectPending
    /\ keyFn # getMediaKey
    /\ getMediaKey' = keyFn
    /\ mediaGroups' = buildMediaGroups(stepCount, keyFn)
    /\ UNCHANGED <<kind, stepCount, activeIndex, scrollYProgress, effectPending, windowScrollTo,
                   mapRoute, geo, sticky>>

\* useEffect(() => setActiveIndex(prev => Math.min(prev, Math.max(stepCount - 1, 0))), [stepCount])
StepCountEffect ==
    /\ effectPending
    /\ activeIndex' = Min(activeIndex, Max(stepCount - 1, 0))
    /\ effectPending' = FALSE
    /\ UNCHANGED <<kind, getMediaKey, stepCount, mediaGroups, scrollYProgress, windowScrollTo,
                   mapRoute, geo, sticky>>

\* the scroll observer sets scrollYProgress to the position of the window;
\* "change" fires when the value differs.  The position reported is the
\* latest one, so no earlier window.scrollTo remains to be reported
ProgressChange(latest) ==
    /\ latest # scrollYProgress
    /\ scrollYProgress' = latest
    /\ OnChange(latest)
    /\ windowScrollTo' = NoScrollTo
    /\ UNCHANGED <<kind, getMediaKey, stepCount, mediaGroups, effectPending, mapRoute, geo, sticky>>

\* onClick={() => scrollToStep(index)} of node `index`: with a positive
\* scroll range, window.scrollTo({ top: sectionTop + targetProgress *
\* scrollRange }); no state of the component is set
ScrollToStep(index, rangePositive) ==
    /\ stepCount # 0
    /\ index \in 0 .. stepCount - 1
    /\ IF rangePositive
       THEN windowScrollTo' = <<TargetProgress(index, stepCount)>>
       ELSE windowScrollTo' = windowScrollTo
    /\ UNCHANGED <<kind, getMediaKey, stepCount, mediaGroups, activeIndex, scrollYProgress,
                   effectPending, mapRoute, geo, sticky>>

\* the scroll observer reports the position window.scrollTo has moved the
\* window to; "change" fires when the value differs
ScrollReport ==
    /\ windowScrollTo # NoScrollTo
    /\ windowScrollTo' = NoScrollTo
    /\ scrollYProgress' = windowScrollTo[1]
    /\ IF windowScrollTo[1] # scrollYProgress THEN OnChange(windowScrollTo[1])
       ELSE activeIndex' = activeIndex
    /\ UNCHANGED <<kind, getMediaKey, stepCount, mediaGroups, effectPending, mapRoute, geo, sticky>>

\* the widget under renders, its effect and the reports of the scroll
\* observer; a click changes no state of the widget, and the report of the
\* position it scrolls to is a ProgressChange, those of ClickTargets among
\* them (SpecClick below has every click and its report as steps of their
\* own)
Next ==
    \/ \E s \in StepsInputs : SetSteps(s)
    \/ \E k \in KeyFns : SetMediaKey(k)
    \/ StepCountEffect
    \/ \E v \in ProgressInputs : ProgressChange(v)

Spec == Init /\ [][Next]_vars

\* the click: a widget without getMediaKey, re-rendered with 0, 2, 4 or 9
\* steps, scrolled by the user to the top, the middle or the end, and
\* clicked on any of its nodes
ClickStepsInputs == {0, 4, 8, 2 * MaxStepsProp}
ClickProgressInputs == {0, Den \div 2, Den}
InitClick == MountWith({NoKey})
NextClick ==
    \/ \E s \in ClickStepsInputs : SetSteps(s)
    \/ StepCountEffect
    \/ \E v \in ClickProgressInputs : ProgressChange(v)
    \/ \E i \in 0 .. MAX_STEP_COUNT - 1, r \in BOOLEAN : ScrollToStep(i, r)
    \/ ScrollReport

SpecClick == InitClick /\ [][NextClick]_vars

\* the grouping alone: a widget mounted with any keying of the steps by two
\* keys and re-rendered with new step counts
InitGroups == MountWith(AllKeyFns)

NextGroups ==
    \/ \E s \in StepsInputs : SetSteps(s)
    \/ StepCountEffect

SpecGroups == InitGroups /\ [][NextGroups]_vars

---------------------------------------------------------------------------
(* MapRoute: the route functions of MapRoute.tsx *)

(***************************************************************************)
(* Numbers.  A longitude or latitude is an integer here.  A progress, a    *)
(* threshold and a coordinate of an interpolated point are rationals, held *)
(* as records [num, den] with den > 0; Frac gives the lowest terms, so     *)
(* that equal rationals are equal records.  Math.hypot rounds; the        *)
(* polylines used below have segments on which it is exact, and where its  *)
(* rounding decides a result the functions have no value here.             *)
(***************************************************************************)

\* if (coordinates.length < 2 || coordinates.length > 25)
MIN_COORDINATES == 2
MAX_COORDINATES == 25

\* the longitude and latitude limits of normalizeCoordinates
MAX_LNG == 180
MAX_LAT == 90

Abs(n) == IF n < 0 THEN -n ELSE n

RECURSIVE GCD(_, _)
GCD(a, b) == IF b = 0 THEN a ELSE GCD(b, a % b)

\* the rational n/d, d > 0, in lowest terms
Frac(n, d) == LET g == GCD(Abs(n), d) IN [num |-> n \div g, den |-> d \div g]

Zero == [num |-> 0, den |-> 1]
One == [num |-> 1, den |-> 1]

\* x + y, x - y and x * y of rationals
FracAdd(x, y) == Frac(x.num * y.den + y.num * x.den, x.den * y.den)
FracSub(x, y) == Frac(x.num * y.den - y.num * x.den, x.den * y.den)
FracMul(x, y) == Frac(x.num * y.num, x.den * y.den)

\* the JavaScript null of a `string | null` cell
Null == "null"

\* a JavaScript number: a finite one (an integer v), NaN, Infinity or -Infinity
FiniteNumber(v) == [k |-> "finite", v |-> v]
NaN == [k |-> "NaN", v |-> 0]
PositiveInfinity == [k |-> "Infinity", v |-> 0]
NegativeInfinity == [k |-> "-Infinity", v |-> 0]

\* a component of a coordinate as the caller passes it: a number, or a string
\* (held with the number its text denotes; NaN when it denotes none)
JsNumber(n) == [t |-> "number", n |-> n]
JsString(n) == [t |-> "string", n |-> n]

\* Number(value): a number is itself, a string is parsed
Number(value) == value.n

\* Number.isFinite(n)
isFinite(n) == n.k = "finite"

\* an entry of the `route` prop: an array of components, or something else
ArrayEntry(items) == [isArray |-> TRUE, items |-> items]
NotAnArray == [isArray |-> FALSE, items |-> << >>]
Pair(lng, lat) == ArrayEntry(<<JsNumber(FiniteNumber(lng)), JsNumber(FiniteNumber(lat))>>)

\* the error results of normalizeCoordinates: points: [], serialized: ""
ParseError(message) == [points |-> << >>, serialized |-> << >>, error |-> message]

\* mutant: the latitude is not checked
OutOfRangeLngOnly(lng, lat) == lng.v < -MAX_LNG \/ lng.v > MAX_LNG

\* lng < -180 || lng > 180 || lat < -90 || lat > 90
OutOfRange(lng, lat) ==
    lng.v < -MAX_LNG \/ lng.v > MAX_LNG \/ lat.v < -MAX_LAT \/ lat.v > MAX_LAT

\* the for loop of normalizeCoordinates, from entry i on.  `serialized`, the
\* text "lng,lat;lng,lat;...", is held as the list of points it spells out.
RECURSIVE normalizeLoop(_, _, _)
normalizeLoop(coordinates, i, points) ==
    IF i > Len(coordinates)
    THEN [points |-> points, serialized |-> points, error |-> Null]
    ELSE LET coordinate == coordinates[i]
         IN  IF ~coordinate.isArray \/ Len(coordinate.items) # 2
             THEN ParseError("Each coordinate must be [longitude, latitude].")
             ELSE LET lng == Number(coordinate.items[1])
                      lat == Number(coordinate.items[2])
                  IN  IF ~isFinite(lng) \/ ~isFinite(lat)
                      THEN ParseError("Longitude and latitude must be valid numbers.")
                      ELSE IF OutOfRange(lng, lat)
                      THEN ParseError("Longitude or latitude is out of range.")
                      ELSE normalizeLoop(coordinates, i + 1,
                                         Append(points, <<lng.v, lat.v>>))

normalizeCoordinates(coordinates) ==
    IF Len(coordinates) < MIN_COORDINATES \/ Len(coordinates) > MAX_COORDINATES
    THEN ParseError("Provide between two and 25 coordinate pairs.")
    ELSE normalizeLoop(coordinates, 1, << >>)

\* Math.hypot rounds: it returns the exact root where dx or dy is 0 (the
\* other one's absolute value) and on the legs 3m and 4m (5m: the quotient
\* 3/4, its square, the sum with 1 and the root 5/4 are doubles); elsewhere,
\* also where the root is an integer (Math.hypot(99, 20) is
\* 100.99999999999999, not 101), the result depends on the rounding
ExactHypot(dx, dy) ==
    \/ dx = 0
    \/ dy = 0
    \/ \E m \in 1 .. Abs(dx) : {Abs(dx), Abs(dy)} = {3 * m, 4 * m}

\* Math.hypot(dx, dy) for integer dx, dy, where it is exact; it has no value
\* in the model elsewhere
Hypot(dx, dy) ==
    CHOOSE r \in 0 .. Abs(dx) + Abs(dy) :
        ExactHypot(dx, dy) /\ r * r = dx * dx + dy * dy

\* Math.hypot(nextLng - prevLng, nextLat - prevLat) of points i-1 and i (from 1)
SegmentLength(coordinates, i) ==
    Hypot(coordinates[i][1] - coordinates[i - 1][1],
          coordinates[i][2] - coordinates[i - 1][2])

\* a point of the input, as a point of a result
ExactPoint(point) == <<Frac(point[1], 1), Frac(point[2], 1)>>

\* sliceRouteByProgress: the first loop, totalLength
RECURSIVE TotalLength(_, _)
TotalLength(coordinates, i) ==
    IF i > Len(coordinates) THEN 0
    ELSE SegmentLength(coordinates, i) + TotalLength(coordinates, i + 1)

\* mutant: the cut is put at the end of the segment
CutPointAtNext(prev, next, remaining, segmentLength) == ExactPoint(next)

\* the interpolated point prev + (next - prev) * ratio with
\* ratio = remaining / segmentLength, remaining a rational
CutPoint(prev, next, remaining, segmentLength) ==
    LET den == remaining.den * segmentLength
    IN  << Frac(prev[1] * den + (next[1] - prev[1]) * remaining.num, den),
           Frac(prev[2] * den + (next[2] - prev[2]) * remaining.num, den) >>

\* mutant: a point that repeats its predecessor is kept in the slice
RECURSIVE sliceLoopKeepRepeats(_, _, _, _, _)
sliceLoopKeepRepeats(coordinates, i, target, traveled, sliced) ==
    IF i > Len(coordinates) THEN sliced
    ELSE LET segmentLength == SegmentLength(coordinates, i)
         IN  IF segmentLength = 0
             THEN sliceLoopKeepRepeats(coordinates, i + 1, target, traveled,
                                       Append(sliced, ExactPoint(coordinates[i])))
             ELSE IF (traveled + segmentLength) * target.den >= target.num
             THEN LET remaining == [num |-> target.num - traveled * target.den,
                                    den |-> target.den]
                  IN  Append(sliced, CutPoint(coordinates[i - 1], coordinates[i],
                                              remaining, segmentLength))
             ELSE sliceLoopKeepRepeats(coordinates, i + 1, target, traveled + segmentLength,
                                       Append(sliced, ExactPoint(coordinates[i])))

\* sliceRouteByProgress: the second loop, from point i on; target is the
\* rational targetLength, traveled an integer
RECURSIVE sliceLoop(_, _, _, _, _)
sliceLoop(coordinates, i, target, traveled, sliced) ==
    IF i > Len(coordinates) THEN sliced
    ELSE LET segmentLength == SegmentLength(coordinates, i)
         IN  IF segmentLength = 0
             THEN sliceLoop(coordinates, i + 1, target, traveled, sliced)
             ELSE IF (traveled + segmentLength) * target.den >= target.num
             THEN LET remaining == [num |-> target.num - traveled * target.den,
                                    den |-> target.den]
                  IN  Append(sliced, CutPoint(coordinates[i - 1], coordinates[i],
                                              remaining, segmentLength))
             ELSE sliceLoop(coordinates, i + 1, target, traveled + segmentLength,
                            Append(sliced, ExactPoint(coordinates[i])))

\* the polyline as a result: return coordinates
WholeLine(coordinates) == [i \in 1 .. Len(coordinates) |-> ExactPoint(coordinates[i])]

\* mutant: no early return for clamped >= 1
sliceRouteByProgressNoFullReturn(coordinates, progress) ==
    IF Len(coordinates) = 0 THEN << >>
    ELSE LET clamped == clampProgress(progress)
         IN  IF clamped.num <= 0 THEN <<ExactPoint(coordinates[1])>>
             ELSE LET totalLength == TotalLength(coordinates, 2)
                  IN  IF totalLength = 0 THEN <<ExactPoint(coordinates[1])>>
                      ELSE sliceLoop(coordinates, 2,
                                     [num |-> totalLength * clamped.num, den |-> clamped.den],
                                     0, <<ExactPoint(coordinates[1])>>)

sliceRouteByProgress(coordinates, progress) ==
    IF Len(coordinates) = 0 THEN << >>
    ELSE LET clamped == clampProgress(progress)
         IN  IF clamped.num <= 0 THEN <<ExactPoint(coordinates[1])>>
             ELSE IF clamped.num >= clamped.den THEN WholeLine(coordinates)
             ELSE LET totalLength == TotalLength(coordinates, 2)
                  IN  IF totalLength = 0 THEN <<ExactPoint(coordinates[1])>>
                      ELSE sliceLoop(coordinates, 2,
                                     [num |-> totalLength * clamped.num, den |-> clamped.den],
                                     0, <<ExactPoint(coordinates[1])>>)

\* a polyline of finite coordinates, which the model holds as integers, as
\* the LngLat[] of numbers the functions below are given
NumberLine(line) ==
    [i \in 1 .. Len(line) |-> <<FiniteNumber(line[i][1]), FiniteNumber(line[i][2])>>]

\* next - prev of two numbers: NaN when one of them is NaN or both are the
\* same infinity, an infinity when one of them is infinite
NumberMinus(next, prev) ==
    IF next.k = "NaN" \/ prev.k = "NaN" THEN NaN
    ELSE IF isFinite(next) /\ isFinite(prev) THEN FiniteNumber(next.v - prev.v)
    ELSE IF isFinite(next)
    THEN (IF prev.k = "Infinity" THEN NegativeInfinity ELSE PositiveInfinity)
    ELSE IF isFinite(prev) THEN next
    ELSE IF next.k = prev.k THEN NaN
    ELSE next

\* Math.hypot(dx, dy): Infinity when an argument is infinite, whatever the
\* other is; otherwise NaN when an argument is NaN
MathHypot(dx, dy) ==
    IF dx.k \in {"Infinity", "-Infinity"} \/ dy.k \in {"Infinity", "-Infinity"}
    THEN PositiveInfinity
    ELSE IF dx.k = "NaN" \/ dy.k = "NaN" THEN NaN
    ELSE FiniteNumber(Hypot(dx.v, dy.v))

\* totalLength += length, of a total and a length that are not negative
NumberPlus(totalLength, length) ==
    IF totalLength.k = "NaN" \/ length.k = "NaN" THEN NaN
    ELSE IF ~isFinite(totalLength) \/ ~isFinite(length) THEN PositiveInfinity
    ELSE FiniteNumber(totalLength.v + length.v)

\* getRouteLengthInfo: the loop from point i on
RECURSIVE routeLengthLoop(_, _, _, _)
routeLengthLoop(coordinates, i, cumulativeLengths, totalLength) ==
    IF i > Len(coordinates)
    THEN [cumulativeLengths |-> cumulativeLengths, totalLength |-> totalLength]
    ELSE IF i = 1
    THEN routeLengthLoop(coordinates, 2, Append(cumulativeLengths, FiniteNumber(0)),
                         totalLength)
    ELSE LET prev == coordinates[i - 1]
             next == coordinates[i]
             length == MathHypot(NumberMinus(next[1], prev[1]),
                                 NumberMinus(next[2], prev[2]))
             total == NumberPlus(totalLength, length)
         IN  routeLengthLoop(coordinates, i + 1, Append(cumulativeLengths, total), total)

getRouteLengthInfo(coordinates) ==
    routeLengthLoop(coordinates, 1, << >>, FiniteNumber(0))

\* the lengths of a polyline whose total length is finite: every one of
\* them is finite, and is held as an integer
FiniteLengths(info) ==
    [cumulativeLengths |->
         [i \in 1 .. Len(info.cumulativeLengths) |-> info.cumulativeLengths[i].v],
     totalLength |-> info.totalLength.v]

\* a polyline of two or more points whose total length is finite: every
\* coordinate of it is finite, and is held as an integer
FiniteLine(routeLine) ==
    [i \in 1 .. Len(routeLine) |-> <<routeLine[i][1].v, routeLine[i][2].v>>]

\* (point[0] - lng)^2 + (point[1] - lat)^2
SquaredDistance(point, vertex) ==
    (point[1] - vertex[1]) * (point[1] - vertex[1])
    + (point[2] - vertex[2]) * (point[2] - vertex[2])

\* const distance = Math.hypot(point[0] - lng, point[1] - lat): the search
\* only compares distances, so a distance is held as the integer it is the
\* root of and the absolute values it is computed from
Distance(point, vertex) ==
    [squared |-> SquaredDistance(point, vertex),
     legs |-> {Abs(point[1] - vertex[1]), Abs(point[2] - vertex[2])}]

\* Number.POSITIVE_INFINITY
InfiniteDistance == [squared |-> -1, legs |-> {}]

\* distance < bestDistance, of two results of Math.hypot.  The roots of two
\* different integers are further apart than Math.hypot rounds; the same
\* absolute values give the same number, and so do two exact roots of one
\* integer.  Any other two roots of one integer (of 99, 20 and of 101, 0)
\* are ordered by the rounding of Math.hypot: the comparison has no value
\* in the model.
DistanceLess(distance, bestDistance) ==
    IF bestDistance = InfiniteDistance THEN TRUE
    ELSE IF distance.squared # bestDistance.squared
    THEN distance.squared < bestDistance.squared
    ELSE CHOOSE less \in {FALSE} :
             \/ distance.legs = bestDistance.legs
             \/ \A d \in {distance, bestDistance} :
                    \E dx \in d.legs, dy \in d.legs :
                        d.legs = {dx, dy} /\ ExactHypot(dx, dy)

\* mutant: of equally near vertices the last one wins
RECURSIVE nearestLoopLastWins(_, _, _, _, _)
nearestLoopLastWins(routeLine, point, i, bestIndex, bestDistance) ==
    IF i > Len(routeLine) THEN bestIndex
    ELSE LET distance == Distance(point, routeLine[i])
         IN  IF bestDistance = InfiniteDistance \/ ~DistanceLess(bestDistance, distance)
             THEN nearestLoopLastWins(routeLine, point, i + 1, i, distance)
             ELSE nearestLoopLastWins(routeLine, point, i + 1, bestIndex, bestDistance)

\* the inner for loop of getRouteItemProgress from vertex i on (vertices
\* counted from 1)
RECURSIVE nearestLoop(_, _, _, _, _)
nearestLoop(routeLine, point, i, bestIndex, bestDistance) ==
    IF i > Len(routeLine) THEN bestIndex
    ELSE LET distance == Distance(point, routeLine[i])
         IN  IF DistanceLess(distance, bestDistance)
             THEN nearestLoop(routeLine, point, i + 1, i, distance)
             ELSE nearestLoop(routeLine, point, i + 1, bestIndex, bestDistance)

\* mutant: every waypoint is searched from the first vertex on
RECURSIVE thresholdLoopFromStart(_, _, _, _, _, _)
thresholdLoopFromStart(routeLine, routeItems, info, k, searchStart, thresholds) ==
    IF k > Len(routeItems) THEN thresholds
    ELSE LET bestIndex == nearestLoop(routeLine, routeItems[k], 1, 1, InfiniteDistance)
             lengthAt == info.cumulativeLengths[bestIndex]
             clamped == clampProgress([num |-> lengthAt, den |-> info.totalLength])
         IN  thresholdLoopFromStart(routeLine, routeItems, info, k + 1, bestIndex,
                                    Append(thresholds, Frac(clamped.num, clamped.den)))

\* the callback of routeItems.map, from waypoint k on, with the searchStart
\* it has reached
RECURSIVE thresholdLoop(_, _, _, _, _, _)
thresholdLoop(routeLine, routeItems, info, k, searchStart, thresholds) ==
    IF k > Len(routeItems) THEN thresholds
    ELSE LET bestIndex == nearestLoop(routeLine, routeItems[k], searchStart, searchStart, InfiniteDistance)
             lengthAt == info.cumulativeLengths[bestIndex]
             clamped == clampProgress([num |-> lengthAt, den |-> info.totalLength])
         IN  thresholdLoop(routeLine, routeItems, info, k + 1, bestIndex,
                           Append(thresholds, Frac(clamped.num, clamped.den)))

\* mutant: the endpoints are left as the search found them
ForceEndpointsNot(thresholds) == thresholds

\* thresholds[0] = 0; thresholds[thresholds.length - 1] = 1
ForceEndpoints(thresholds) ==
    LET first == [thresholds EXCEPT ![1] = Zero]
    IN  [first EXCEPT ![Len(thresholds)] = One]

\* the thresholds of a polyline of finite, positive total length
ThresholdsOnLine(routeLine, routeItems, info) ==
    ForceEndpoints(thresholdLoop(FiniteLine(routeLine), routeItems,
                                 FiniteLengths(info), 1, 1, << >>))

\* mutant: a total length that is not finite gives 0 for every waypoint
getRouteItemProgressNoFiniteTest(routeLine, routeItems) ==
    IF Len(routeItems) = 0 THEN << >>
    ELSE IF Len(routeLine) = 0 THEN [k \in 1 .. Len(routeItems) |-> Zero]
    ELSE LET info == getRouteLengthInfo(routeLine)
         IN  IF ~isFinite(info.totalLength)
             THEN [k \in 1 .. Len(routeItems) |-> Zero]
             ELSE IF info.totalLength.v <= 0
             THEN [k \in 1 .. Len(routeItems) |-> IF k = 1 THEN Zero ELSE One]
             ELSE ThresholdsOnLine(routeLine, routeItems, info)

\* if (!Number.isFinite(totalLength) || totalLength <= 0): the second test
\* is reached with a finite total length only
getRouteItemProgress(routeLine, routeItems) ==
    IF Len(routeItems) = 0 THEN << >>
    ELSE IF Len(routeLine) = 0 THEN [k \in 1 .. Len(routeItems) |-> Zero]
    ELSE LET info == getRouteLengthInfo(routeLine)
         IN  IF ~isFinite(info.totalLength) \/ info.totalLength.v <= 0
             THEN [k \in 1 .. Len(routeItems) |-> IF k = 1 THEN Zero ELSE One]
             ELSE ThresholdsOnLine(routeLine, routeItems, info)

---------------------------------------------------------------------------
(* The route functions, called once on each input *)

\* bounds: the longest short route given to normalizeCoordinates, the longest
\* polyline and the longest waypoint list
MaxCoords == 3
MaxLineLen == 3
MaxItems == 3

\* the denominator of the progress values given to MapRoute
MapDen == 20 * 64

\* the entries a route is made of: pairs inside the limits, on them and just
\* outside, pairs with a NaN or infinite component, pairs of strings, and
\* entries that are no pair
Entries ==
    { Pair(0, 0), Pair(MAX_LNG, MAX_LAT), Pair(-MAX_LNG, -MAX_LAT),
      Pair(MAX_LNG + 1, 0), Pair(-MAX_LNG - 1, 0),
      Pair(0, MAX_LAT + 1), Pair(0, -MAX_LAT - 1),
      ArrayEntry(<<JsNumber(NaN), JsNumber(FiniteNumber(0))>>),
      ArrayEntry(<<JsNumber(FiniteNumber(0)), JsNumber(PositiveInfinity)>>),
      ArrayEntry(<<JsNumber(NegativeInfinity), JsNumber(FiniteNumber(0))>>),
      ArrayEntry(<<JsString(FiniteNumber(12)), JsString(FiniteNumber(5))>>),
      ArrayEntry(<<JsString(NaN), JsNumber(FiniteNumber(0))>>),
      NotAnArray,
      ArrayEntry(<<JsNumber(FiniteNumber(0))>>),
      ArrayEntry(<<JsNumber(FiniteNumber(0)), JsNumber(FiniteNumber(0)),
                   JsNumber(FiniteNumber(0))>>) }

\* the routes: every list of at most MaxCoords entries, and the lists around
\* the upper limit made of valid pairs and one last entry
ShortRoutes == UNION {[1 .. n -> Entries] : n \in 0 .. MaxCoords}
LongRoutes ==
    { [i \in 1 .. n |-> IF i = n THEN e ELSE Pair(0, 0)] :
          n \in MAX_COORDINATES - 1 .. MAX_COORDINATES + 1, e \in Entries }
RouteInputs == ShortRoutes \cup LongRoutes

\* the points of the polylines and of the waypoints
LinePoints == {<<0, 0>>, <<0, 3>>, <<0, 10>>, <<4, 3>>}
ItemPoints == {<<0, 0>>, <<0, 3>>, <<0, 5>>, <<0, 10>>}

\* Math.hypot is exact on every segment of the polyline
ExactSegments(line) ==
    \A i \in 2 .. Len(line) :
        ExactHypot(line[i][1] - line[i - 1][1], line[i][2] - line[i - 1][2])

Polylines ==
    {line \in UNION {[1 .. n -> LinePoints] : n \in 0 .. MaxLineLen} : ExactSegments(line)}
\* waypoint lists that go to the end of the route and come back: the second
\* and the third waypoint are any two points
BacktrackingWaypoints ==
    { << <<0, 0>>, b, c, <<0, 10>> >> : b \in ItemPoints, c \in ItemPoints }
WaypointLists ==
    UNION {[1 .. n -> ItemPoints] : n \in 0 .. MaxItems} \cup BacktrackingWaypoints

\* the progress values given to sliceRouteByProgress: below 0, 0, inside
\* (0,1), 1 and above 1
SliceProgressInputs ==
    { [num |-> a * 64, den |-> MapDen] : a \in {-5, 0, 1, 5, 6, 10, 15, 19, 20, 25} }

\* the points of the polylines that getRouteItemProgress is given unchecked
\* (the geometry of a Directions response): finite ones, and ones with an
\* infinite or NaN coordinate
NumberPoints ==
    { <<FiniteNumber(0), FiniteNumber(0)>>, <<FiniteNumber(0), FiniteNumber(10)>>,
      <<PositiveInfinity, FiniteNumber(0)>>, <<NegativeInfinity, FiniteNumber(0)>>,
      <<FiniteNumber(0), NaN>> }
NumberLines == UNION {[1 .. n -> NumberPoints] : n \in 0 .. MaxLineLen}
\* the waypoint lists given with them
EndpointLists == UNION {[1 .. n -> {<<0, 0>>, <<0, 10>>}] : n \in 0 .. MaxItems}

Normalize(coordinates) ==
    /\ geo.op = "none"
    /\ geo' = [op |-> "normalizeCoordinates",
               args |-> [coordinates |-> coordinates],
               result |-> normalizeCoordinates(coordinates)]
    /\ UNCHANGED <<widgetVars, mapRoute, sticky>>

Slice(coordinates, progress) ==
    /\ geo.op = "none"
    /\ geo' = [op |-> "sliceRouteByProgress",
               args |-> [coordinates |-> coordinates, progress |-> progress],
               result |-> sliceRouteByProgress(coordinates, progress)]
    /\ UNCHANGED <<widgetVars, mapRoute, sticky>>

Thresholds(routeLine, routeItems) ==
    /\ geo.op = "none"
    /\ geo' = [op |-> "getRouteItemProgress",
               args |-> [routeLine |-> routeLine, routeItems |-> routeItems],
               result |-> getRouteItemProgress(NumberLine(routeLine), routeItems)]
    /\ UNCHANGED <<widgetVars, mapRoute, sticky>>

\* getRouteItemProgress on a polyline whose coordinates are any numbers
ThresholdsOfNumbers(routeLine, routeItems) ==
    /\ geo.op = "none"
    /\ geo' = [op |-> "getRouteItemProgress of numbers",
               args |-> [routeLine |-> routeLine, routeItems |-> routeItems],
               result |-> getRouteItemProgress(routeLine, routeItems)]
    /\ UNCHANGED <<widgetVars, mapRoute, sticky>>

InitRoute == NoWidget /\ mapRoute = NoMapRoute /\ geo = NoGeo /\ sticky = NoSticky

\* a function is called once, on any input; the test on geo.op is repeated
\* outside the quantifiers so that the inputs are enumerated in the initial
\* state only
CallNormalize ==
    geo.op = "none" /\ \E coordinates \in RouteInputs : Normalize(coordinates)

CallSlice ==
    geo.op = "none" /\ \E coordinates \in Polylines, progress \in SliceProgressInputs :
                          Slice(coordinates, progress)

CallThresholds ==
    geo.op = "none" /\ \E routeLine \in Polylines, routeItems \in WaypointLists :
                          Thresholds(routeLine, routeItems)

CallThresholdsOfNumbers ==
    geo.op = "none" /\ \E routeLine \in NumberLines, routeItems \in EndpointLists :
                          ThresholdsOfNumbers(routeLine, routeItems)

NextRoute == CallNormalize \/ CallSlice \/ CallThresholds \/ CallThresholdsOfNumbers

SpecRoute == InitRoute /\ [][NextRoute]_vars

---------------------------------------------------------------------------
(* MapRoute: the component *)

(***************************************************************************)
(* mapRoute is the state of one mounted MapRoute: its props (route,        *)
(* progress), the MAPBOX_API_TOKEN of the build, its useState cells        *)
(* (routeData, routeError, isLoading, animatedProgress), the directions    *)
(* requests in flight, the running progress animation, and which of its    *)
(* effects are scheduled.  setAnimatedProgress sets animatedProgress; the   *)
(* component is rendered with it in a later step (renderedProgress is the  *)
(* value of the last render), and animatedProgressRef.current is written   *)
(* by an effect of that render, in a later step again.  The progress prop  *)
(* is a numerator over MapDen; animatedProgress, the ref and the ends of   *)
(* an animation are rationals in lowest terms.  Values derived at render   *)
(* are operators of mapRoute.                                              *)
(***************************************************************************)

\* bound: the directions requests in flight (aborted ones included)
MaxInFlight == 2

\* bound: the binary digits after the point of the values the frames give
\* to animatedProgress
MaxBits == 3

\* const duration = 500
duration == 500

\* elapsed = timestamp - startTime of the frames delivered, in ms: a frame
\* stamped before the effect read performance.now(), a frame halfway and a
\* frame at the end of the animation; the results are multiples of a power
\* of 1/2, on which the arithmetic of step is exact in doubles
FrameTimes == {-250, 250, duration}

\* the progress prop: omitted, or a number
NoProgress == [set |-> FALSE, num |-> 0, den |-> MapDen]
ProgressOf(a) == [set |-> TRUE, num |-> a, den |-> MapDen]
\* the numbers given are -0.25 and 1.25, so the animations run between 0
\* and 1 and the values in between are those of their frames
ProgressProps == {NoProgress} \cup {ProgressOf(a * 5) : a \in {-64, 320}}

\* the routes given to MapRoute: two valid ones (three points on a line,
\* two equal points) and two invalid ones
MapRoutes ==
    { <<Pair(0, 0), Pair(0, 5), Pair(0, 10)>>,
      <<Pair(0, 3), Pair(0, 3)>>,
      <<Pair(0, 0)>>,
      <<Pair(0, 0), Pair(MAX_LNG + 1, 0)>> }

\* routeData: null, or the FeatureCollection of a LineString
NullData == [isNull |-> TRUE, coordinates |-> << >>]
buildFeatureCollection(coordinates) == [isNull |-> FALSE, coordinates |-> coordinates]

\* what the Directions API answers: the status line (ok or not), and with
\* an ok status a body: a geometry (possibly without coordinates), with or
\* without a message
Geometries ==
    { << <<0, 0>>, <<0, 3>>, <<0, 10>> >>,
      << <<0, 3>>, <<0, 3>> >>,
      << <<0, 10>> >>,
      << >> }
Responses ==
    {[ok |-> TRUE, message |-> ""], [ok |-> FALSE, message |-> "Directions API error: 500"]}
Bodies ==
    {[coordinates |-> g, message |-> ""] : g \in Geometries}
    \cup {[coordinates |-> << >>, message |-> "No route found"]}

NoAnimation == [active |-> FALSE, start |-> Zero, target |-> Zero]

\* const parsedRoute = useMemo(() => normalizeCoordinates(route), [route])
parsedRoute == normalizeCoordinates(mapRoute.route)

\* fetchedRouteCoordinates: null (here the empty list) without coordinates
fetchedRouteCoordinates ==
    IF mapRoute.routeData.isNull \/ Len(mapRoute.routeData.coordinates) = 0
    THEN << >> ELSE mapRoute.routeData.coordinates

\* const routeCoordinates = fetchedRouteCoordinates ?? parsedRoute.points
routeCoordinates ==
    IF fetchedRouteCoordinates = << >> THEN parsedRoute.points ELSE fetchedRouteCoordinates

\* const displayProgress = progress == null ? 1 : animatedProgress
displayProgress == IF ~mapRoute.progress.set THEN One ELSE mapRoute.animatedProgress

clampedProgress == clampProgress(displayProgress)

routeItemProgress == getRouteItemProgress(NumberLine(routeCoordinates), parsedRoute.points)

\* visibleRouteData: null (here the empty list), or the coordinates to draw
visibleRouteData ==
    IF mapRoute.routeData.isNull \/ fetchedRouteCoordinates = << >> THEN << >>
    ELSE IF ~mapRoute.progress.set THEN WholeLine(mapRoute.routeData.coordinates)
    ELSE LET sliced == sliceRouteByProgress(fetchedRouteCoordinates, clampedProgress)
         IN  IF Len(sliced) < 2 THEN << >> ELSE sliced

\* mutant: a marker appears only after its threshold
isVisibleAfter(index) ==
    LET threshold == routeItemProgress[index]
    IN  clampedProgress.num * threshold.den > threshold.num * clampedProgress.den

\* const isVisible = clampedProgress >= threshold, of marker `index` (from 1)
isVisible(index) ==
    LET threshold == routeItemProgress[index]
    IN  clampedProgress.num * threshold.den >= threshold.num * clampedProgress.den

\* what MapRoute returns: an empty state with a message, or the map with
\* the route line, the markers and the status badge
View ==
    IF ~mapRoute.token
    THEN [kind |-> "empty", message |-> "Missing MAPBOX_API_TOKEN in .env",
          line |-> << >>, markers |-> {}, badge |-> Null]
    ELSE IF parsedRoute.error # Null
    THEN [kind |-> "empty", message |-> parsedRoute.error,
          line |-> << >>, markers |-> {}, badge |-> Null]
    ELSE [kind |-> "map", message |-> Null,
          line |-> visibleRouteData,
          markers |-> {index \in 1 .. Len(parsedRoute.points) : isVisible(index)},
          badge |-> IF mapRoute.routeError # Null THEN mapRoute.routeError
                    ELSE IF mapRoute.isLoading THEN "Loading route..." ELSE Null]

\* the dependencies of the fetch effect
fetchDeps(route) ==
    LET parsed == normalizeCoordinates(route)
    IN  <<parsed.error, Len(parsed.points), parsed.serialized>>

\* mutant: the fetch effect does not test the validation error
fetchEffectUnguarded(m) ==
    LET parsed == normalizeCoordinates(m.route)
        aborted == [i \in 1 .. Len(m.fetches) |-> [m.fetches[i] EXCEPT !.aborted = TRUE]]
    IN  IF ~m.token
        THEN [m EXCEPT !.fetches = aborted, !.routeData = NullData, !.routeError = Null,
                       !.isLoading = FALSE, !.fetchPending = FALSE]
        ELSE [m EXCEPT !.fetches = Append(aborted, [serialized |-> parsed.serialized,
                                                     aborted |-> FALSE,
                                                     responded |-> FALSE]),
                       !.isLoading = TRUE, !.routeError = Null, !.routeData = NullData,
                       !.fetchPending = FALSE]

\* the fetch effect: the cleanup of its last run (controller.abort()), then
\* its body up to the first await of fetchRoute
fetchEffect(m) ==
    LET parsed == normalizeCoordinates(m.route)
        aborted == [i \in 1 .. Len(m.fetches) |-> [m.fetches[i] EXCEPT !.aborted = TRUE]]
    IN  IF ~m.token \/ parsed.error # Null
        THEN [m EXCEPT !.fetches = aborted, !.routeData = NullData, !.routeError = Null,
                       !.isLoading = FALSE, !.fetchPending = FALSE]
        ELSE IF Len(parsed.points) < 2
        THEN [m EXCEPT !.fetches = aborted, !.routeData = NullData,
                       !.routeError = "Provide at least two coordinates.",
                       !.isLoading = FALSE, !.fetchPending = FALSE]
        ELSE [m EXCEPT !.fetches = Append(aborted, [serialized |-> parsed.serialized,
                                                     aborted |-> FALSE,
                                                     responded |-> FALSE]),
                       !.isLoading = TRUE, !.routeError = Null, !.routeData = NullData,
                       !.fetchPending = FALSE]

\* clampProgress(progress), in lowest terms
clampedTarget(progress) ==
    LET clamped == clampProgress(progress) IN Frac(clamped.num, clamped.den)

\* setAnimatedProgress(value): the state cell is set; the render follows
setAnimatedProgress(m, value) == [m EXCEPT !.animatedProgress = value]

\* the progress effect: the cleanup of its last run (cancelAnimationFrame),
\* then its body
progressEffect(m) ==
    LET stopped == [m EXCEPT !.animation = NoAnimation, !.progressPending = FALSE]
    IN  IF ~m.progress.set
        THEN IF m.animatedProgressRef # One
             THEN setAnimatedProgress(stopped, One) ELSE stopped
        ELSE LET target == clampedTarget(m.progress)
                 start == m.animatedProgressRef
             IN  IF start = target THEN stopped
                 ELSE [stopped EXCEPT
                          !.animation = [active |-> TRUE, start |-> start, target |-> target]]

\* mount: the first render; its effects are scheduled
MountMapRoute ==
    /\ NoWidget
    /\ geo = NoGeo
    /\ sticky = NoSticky
    /\ \E token \in BOOLEAN, route \in MapRoutes, progress \in ProgressProps :
          LET initial == IF ~progress.set THEN One ELSE clampedTarget(progress)
          IN  mapRoute = [mounted |-> TRUE, token |-> token, route |-> route,
                          progress |-> progress,
                          routeData |-> NullData, routeError |-> Null, isLoading |-> FALSE,
                          animatedProgress |-> initial,
                          renderedProgress |-> initial,
                          animatedProgressRef |-> initial,
                          fetches |-> << >>, animation |-> NoAnimation,
                          fetchPending |-> TRUE, progressPending |-> TRUE]

\* the ref effect is scheduled when the last render had another
\* animatedProgress than the render before it, whose value the ref holds
refPending == mapRoute.renderedProgress # mapRoute.animatedProgressRef

\* effects of the last render that have not run yet
EffectsPending == mapRoute.fetchPending \/ refPending \/ mapRoute.progressPending

\* every render reads the animatedProgress cell
rendered(m) == [m EXCEPT !.renderedProgress = m.animatedProgress]

\* a render with a new route prop (React runs the scheduled effects of the
\* last render before it renders again); the fetch effect is scheduled when
\* one of its dependencies has changed
SetRoute(route) ==
    /\ ~EffectsPending
    /\ route # mapRoute.route
    /\ Len(mapRoute.fetches) < MaxInFlight
    /\ mapRoute' = [rendered(mapRoute) EXCEPT !.route = route,
                        !.fetchPending = (fetchDeps(route) # fetchDeps(mapRoute.route))]
    /\ UNCHANGED <<widgetVars, geo, sticky>>

\* a render with a new progress prop
SetProgress(progress) ==
    /\ ~EffectsPending
    /\ progress # mapRoute.progress
    /\ mapRoute' = [rendered(mapRoute) EXCEPT !.progress = progress, !.progressPending = TRUE]
    /\ UNCHANGED <<widgetVars, geo, sticky>>

\* the render that setAnimatedProgress has asked for
Render ==
    /\ ~EffectsPending
    /\ mapRoute.animatedProgress # mapRoute.renderedProgress
    /\ mapRoute' = rendered(mapRoute)
    /\ UNCHANGED <<widgetVars, geo, sticky>>

\* useEffect(() => { animatedProgressRef.current = animatedProgress }, [animatedProgress])
refEffect(m) == [m EXCEPT !.animatedProgressRef = m.renderedProgress]

\* the scheduled effects of the last render run, in the order of their
\* declaration: the fetch effect, the ref effect, the progress effect
FlushEffects ==
    /\ EffectsPending
    /\ LET fetched == IF mapRoute.fetchPending THEN fetchEffect(mapRoute) ELSE mapRoute
           written == refEffect(fetched)
       IN  mapRoute' = IF written.progressPending THEN progressEffect(written) ELSE written
    /\ UNCHANGED <<widgetVars, geo, sticky>>

\* request i is no longer in flight
Settled(i) ==
    [j \in 1 .. Len(mapRoute.fetches) - 1 |->
        IF j < i THEN mapRoute.fetches[j] ELSE mapRoute.fetches[j + 1]]

\* fetchRoute resumes after await fetch(...): an aborted request throws
\* AbortError (return, then finally); a status that is not ok throws the
\* API error (setRouteError, then finally); otherwise fetchRoute waits for
\* the body at await response.json()
FetchResponds(i, response) ==
    /\ i \in 1 .. Len(mapRoute.fetches)
    /\ ~mapRoute.fetches[i].responded
    /\ IF mapRoute.fetches[i].aborted
       THEN mapRoute' = [mapRoute EXCEPT !.fetches = Settled(i), !.isLoading = FALSE]
       ELSE IF ~response.ok
       THEN mapRoute' = [mapRoute EXCEPT !.fetches = Settled(i), !.isLoading = FALSE,
                                         !.routeError = response.message]
       ELSE mapRoute' = [mapRoute EXCEPT !.fetches[i].responded = TRUE]
    /\ UNCHANGED <<widgetVars, geo, sticky>>

\* fetchRoute resumes after await response.json(): an aborted request
\* throws AbortError (return, then finally); otherwise the body gives the
\* route data or an error message (data.message || "No route data
\* returned." without coordinates); finally setIsLoading(false)
FetchBodyArrives(i, data) ==
    /\ i \in 1 .. Len(mapRoute.fetches)
    /\ mapRoute.fetches[i].responded
    /\ IF mapRoute.fetches[i].aborted
       THEN mapRoute' = [mapRoute EXCEPT !.fetches = Settled(i), !.isLoading = FALSE]
       ELSE IF Len(data.coordinates) = 0
       THEN mapRoute' = [mapRoute EXCEPT !.fetches = Settled(i), !.isLoading = FALSE,
                              !.routeError = IF data.message # "" THEN data.message
                                             ELSE "No route data returned."]
       ELSE mapRoute' = [mapRoute EXCEPT !.fetches = Settled(i), !.isLoading = FALSE,
                              !.routeData = buildFeatureCollection(data.coordinates)]
    /\ UNCHANGED <<widgetVars, geo, sticky>>

\* eased = 1 - Math.pow(1 - progressValue, 3), with
\* progressValue = Math.min(1, elapsed / duration)
eased(elapsed) ==
    LET progressValue == Frac(Min(duration, elapsed), duration)
        rest == FracSub(One, progressValue)
    IN  FracSub(One, FracMul(rest, FracMul(rest, rest)))

\* step(timestamp), with elapsed = timestamp - startTime:
\* setAnimatedProgress(start + (target - start) * eased), and another frame
\* is requested if progressValue < 1
step(m, elapsed) ==
    LET start == m.animation.start
        target == m.animation.target
        next == setAnimatedProgress(m,
                    FracAdd(start, FracMul(FracSub(target, start), eased(elapsed))))
    IN  IF elapsed < duration THEN next ELSE [next EXCEPT !.animation = NoAnimation]

\* the frame that was requested is delivered, with any timestamp of
\* FrameTimes whose result has no more than MaxBits binary digits
Frame(elapsed) ==
    /\ mapRoute.animation.active
    /\ step(mapRoute, elapsed).animatedProgress.den <= 2 ^ MaxBits
    /\ mapRoute' = step(mapRoute, elapsed)
    /\ UNCHANGED <<widgetVars, geo, sticky>>

\* a frame at elapsed >= 500 ms: progressValue = 1, eased = 1, and no
\* further frame is requested
LastFrame == Frame(duration)

NextMapRoute ==
    \/ \E route \in MapRoutes : SetRoute(route)
    \/ \E progress \in ProgressProps : SetProgress(progress)
    \/ Render
    \/ FlushEffects
    \/ \E i \in 1 .. MaxInFlight, response \in Responses : FetchResponds(i, response)
    \/ \E i \in 1 .. MaxInFlight, data \in Bodies : FetchBodyArrives(i, data)
    \/ \E elapsed \in FrameTimes : Frame(elapsed)

SpecMapRoute == MountMapRoute /\ [][NextMapRoute]_vars

---------------------------------------------------------------------------
\* the scheduled effects of a render always run, a render that has been
\* asked for takes place, and of the animation frames that keep being
\* delivered one has elapsed >= 500 ms
SpecMapRouteFair ==
    /\ MountMapRoute
    /\ [][NextMapRoute]_vars
    /\ WF_vars(FlushEffects)
    /\ WF_vars(Render)
    /\ WF_vars(LastFrame)

(* StickySide: StickySideScrollytelling                                    *)
(*                                                                         *)
(* Every StepCard has its own scrollYProgress (useScroll on the card) and  *)
(* a spring that follows it (smoothProgress).  A card's "change" handler   *)
(* makes the card the active step when its progress exceeds 0.35.  The     *)
(* progress of a media group is computed by updateProgress from the        *)
(* smoothProgress values registered for its members.  Progress values are  *)
(* numerators over StickyDen.  A render with another `steps` prop keeps    *)
(* activeIndex and the cards that stay, and mounts the new cards at 0.     *)

\* the denominator of the progress values of StickySide
StickyDen == 20 * 5

\* const nextActive = latest > 0.35
ACTIVE_THRESHOLD == 35

\* const DEFAULT_STEP_COUNT = 5 of StickySide.tsx
STICKY_DEFAULT_STEP_COUNT == 5

\* bounds: the largest `steps` prop of a StickySide, the largest media group
MaxStickySteps == 2
MaxGroupSize == 3

\* const stepCount = Math.max(0, Math.floor(steps)), steps held in halves
StickyStepCountOf(stepsHalves) == Max(0, stepsHalves \div 2)

\* const fallbackProgress = useMotionValue(0); it is never set
fallbackProgress == 0

\* progressMapRef.current.get(stepIndex) ?? fallbackProgress, then .get()
ProgressSource(progressMap, stepIndex) ==
    IF stepIndex \in DOMAIN progressMap THEN progressMap[stepIndex] ELSE fallbackProgress

\* mutant: a member at rest is not skipped
RECURSIVE updateLoopNoSkip(_, _, _, _)
updateLoopNoSkip(group, progressMap, offset, nextValue) ==
    IF offset >= Len(group.stepIndices) THEN nextValue
    ELSE LET stepIndex == group.stepIndices[offset + 1]
             rawValue == Max(0, Min(ProgressSource(progressMap, stepIndex), StickyDen))
             scaledValue == offset * StickyDen + rawValue
         IN  updateLoopNoSkip(group, progressMap, offset + 1,
                              IF scaledValue > nextValue THEN scaledValue ELSE nextValue)

\* updateProgress: the for loop from `offset` on; nextValue and scaledValue
\* are numerators over StickyDen * stepCount
RECURSIVE updateLoop(_, _, _, _)
updateLoop(group, progressMap, offset, nextValue) ==
    IF offset >= Len(group.stepIndices) THEN nextValue
    ELSE LET stepIndex == group.stepIndices[offset + 1]
             rawValue == Max(0, Min(ProgressSource(progressMap, stepIndex), StickyDen))
             scaledValue == offset * StickyDen + rawValue
         IN  IF offset > 0 /\ rawValue <= 0
             THEN updateLoop(group, progressMap, offset + 1, nextValue)
             ELSE updateLoop(group, progressMap, offset + 1,
                             IF scaledValue > nextValue THEN scaledValue ELSE nextValue)

\* updateProgress: the value given to groupProgress.set, as a fraction
updateProgress(group, progressMap) ==
    LET count == IF Len(group.stepIndices) = 0 THEN 1 ELSE Len(group.stepIndices)
    IN  [num |-> updateLoop(group, progressMap, 0, 0), den |-> StickyDen * count]

\* the media groups updateProgress is called on: the steps from startIndex on
StickyGroupInputs ==
    { [key |-> "a", startIndex |-> s, endIndex |-> s + size - 1,
       stepIndices |-> [k \in 1 .. size |-> s + k - 1]] :
          s \in 0 .. 1, size \in 1 .. MaxGroupSize }

\* the values of a smoothProgress: at rest, moving, at the end, outside [0,1]
SmoothValues == {-50, 0, 1, 50, 100, 150}

\* the values of progressMapRef for a group: some of its members registered
ProgressMaps(group) ==
    UNION { [S -> SmoothValues] :
              S \in SUBSET {group.stepIndices[k] : k \in 1 .. Len(group.stepIndices)} }

UpdateProgress(group, progressMap) ==
    /\ geo.op = "none"
    /\ geo' = [op |-> "updateProgress",
               args |-> [group |-> group, progressMap |-> progressMap],
               result |-> updateProgress(group, progressMap)]
    /\ UNCHANGED <<widgetVars, mapRoute, sticky>>

CallUpdateProgress ==
    geo.op = "none" /\ \E group \in StickyGroupInputs :
                          \E progressMap \in ProgressMaps(group) :
                              UpdateProgress(group, progressMap)

\* updateProgress is called once, on any group and any progress map
SpecStickyProgress == InitRoute /\ [][CallUpdateProgress]_vars

\* the `steps` prop of StickySide, in halves: -1, 0.5 and 0, 1, ..., MaxStickySteps
StickyStepsInputs == {-2, 1} \cup {2 * n : n \in 0 .. MaxStickySteps}

\* the values of a card's scrollYProgress: around the threshold 0.35
StickyScrollValues == {0, 20, ACTIVE_THRESHOLD, ACTIVE_THRESHOLD + 1, StickyDen}

\* a mounted StickySide: useState(0), and motionValue(0) for every card
MountedSticky(stepsHalves) ==
    [stepCount |-> StickyStepCountOf(stepsHalves),
     activeIndex |-> 0,
     scrollYProgress |-> [i \in 1 .. StickyStepCountOf(stepsHalves) |-> 0]]

\* mount: two StickySide components with the same props, each in a scroll
\* container of its own
MountStickySides ==
    /\ NoWidget
    /\ mapRoute = NoMapRoute
    /\ geo = NoGeo
    /\ \E stepsHalves \in StickyStepsInputs :
          sticky = <<MountedSticky(stepsHalves), MountedSticky(stepsHalves)>>

\* the "change" handler of the scrollYProgress of card `index`:
\* if (latest > 0.35) onActive(), with onActive = () => setActiveIndex(index);
\* gives the next activeIndex
onScrollChange(s, index, latest) ==
    IF latest > ACTIVE_THRESHOLD THEN index ELSE s.activeIndex

\* the scroll observer of card `index` of component n sets its
\* scrollYProgress; "change" fires when the value differs
StepScroll(n, index, latest) ==
    /\ n \in DOMAIN sticky
    /\ index \in 0 .. sticky[n].stepCount - 1
    /\ latest # sticky[n].scrollYProgress[index + 1]
    /\ sticky' = [sticky EXCEPT
                     ![n].scrollYProgress[index + 1] = latest,
                     ![n].activeIndex = onScrollChange(sticky[n], index, latest)]
    /\ UNCHANGED <<widgetVars, mapRoute, geo>>

\* the component rendered again with another `steps` prop: stepCount is
\* computed anew, activeIndex is kept, the cards below the new count stay
\* and the new cards are mounted with motionValue(0)
RenderedSticky(s, stepsHalves) ==
    [stepCount |-> StickyStepCountOf(stepsHalves),
     activeIndex |-> s.activeIndex,
     scrollYProgress |->
         [i \in 1 .. StickyStepCountOf(stepsHalves) |->
             IF i <= s.stepCount THEN s.scrollYProgress[i] ELSE 0]]

\* the parent renders its StickySide components with another `steps` prop
SetStickySteps(stepsHalves) ==
    /\ Len(sticky) > 0
    /\ StickyStepCountOf(stepsHalves) # sticky[1].stepCount
    /\ sticky' = [n \in DOMAIN sticky |-> RenderedSticky(sticky[n], stepsHalves)]
    /\ UNCHANGED <<widgetVars, mapRoute, geo>>

NextSticky ==
    \/ \E n \in 1 .. 2, index \in 0 .. MaxStickySteps - 1, latest \in StickyScrollValues :
          StepScroll(n, index, latest)
    \/ \E stepsHalves \in StickyStepsInputs : SetStickySteps(stepsHalves)

SpecSticky == MountStickySides /\ [][NextSticky]_vars

\* one StickySide, the `steps` prop also omitted (the default, in halves)
StickyStepsOrOmitted == StickyStepsInputs \cup {2 * STICKY_DEFAULT_STEP_COUNT}

MountStickySide ==
    /\ NoWidget
    /\ mapRoute = NoMapRoute
    /\ geo = NoGeo
    /\ \E stepsHalves \in StickyStepsOrOmitted : sticky = <<MountedSticky(stepsHalves)>>

NextStickyOne ==
    \/ \E index \in 0 .. STICKY_DEFAULT_STEP_COUNT - 1, latest \in StickyScrollValues :
          StepScroll(1, index, latest)
    \/ \E stepsHalves \in StickyStepsOrOmitted : SetStickySteps(stepsHalves)

SpecStickyOne == MountStickySide /\ [][NextStickyOne]_vars

---------------------------------------------------------------------------

(* Media grouping: C1 - C3, checked under SpecGroups *)

RECURSIVE ConcatStepIndices(_)
ConcatStepIndices(groups) ==
    IF Len(groups) = 0 THEN << >>
    ELSE groups[1].stepIndices \o ConcatStepIndices(Tail(groups))

\* the key of step i under the current getMediaKey prop
KeyOfStep(i) == IF getMediaKey = NoKey THEN i ELSE getMediaKey[i + 1]

\* the positions of the groups that list step i
GroupsOfStep(i) ==
    {g \in 1 .. Len(mediaGroups) :
        \E j \in 1 .. Len(mediaGroups[g].stepIndices) : mediaGroups[g].stepIndices[j] = i}

\* C1: for stepCount > 0 the stepIndices of the groups, concatenated in group
\* order, are exactly 0, 1, ..., stepCount - 1: every step index is in exactly
\* one group, none is missing or duplicated, and the indices ascend.
C1_GroupsPartitionSteps ==
    stepCount > 0 =>
        /\ ConcatStepIndices(mediaGroups) = [j \in 1 .. stepCount |-> j - 1]
        /\ \A i \in 0 .. stepCount - 1 : Cardinality(GroupsOfStep(i)) = 1

C1_Witness ==
    /\ stepCount = MAX_STEP_COUNT
    /\ Len(mediaGroups) = 3
    /\ \A g \in 1 .. 3 : Len(mediaGroups[g].stepIndices) >= 2

\* C2: the groups are the maximal runs of equal keys: steps i and i+1 are in
\* the same group iff keyOf(i) = keyOf(i+1); no two adjacent groups share a
\* key; a key that recurs non-adjacently starts a new group (keys a,a,b,b give
\* exactly {a,0..1} and {b,2..3}; keys a,b,a give three groups).
C2_GroupsAreMaximalRuns ==
    /\ \A i \in 0 .. stepCount - 2 :
          (GroupsOfStep(i) = GroupsOfStep(i + 1)) <=> (KeyOfStep(i) = KeyOfStep(i + 1))
    /\ \A g \in 1 .. Len(mediaGroups) - 1 : mediaGroups[g].key # mediaGroups[g + 1].key
    /\ \A g \in 1 .. Len(mediaGroups) :
          \A j \in 1 .. Len(mediaGroups[g].stepIndices) :
              KeyOfStep(mediaGroups[g].stepIndices[j]) = mediaGroups[g].key
    /\ (stepCount = 4 /\ getMediaKey # NoKey
          /\ SubSeq(getMediaKey, 1, 4) = <<"a", "a", "b", "b">>)
       => mediaGroups =
             << [key |-> "a", startIndex |-> 0, endIndex |-> 1, stepIndices |-> <<0, 1>>],
                [key |-> "b", startIndex |-> 2, endIndex |-> 3, stepIndices |-> <<2, 3>>] >>
    /\ (stepCount = 3 /\ getMediaKey # NoKey
          /\ SubSeq(getMediaKey, 1, 3) = <<"a", "b", "a">>)
       => Len(mediaGroups) = 3

C2_Witness ==
    /\ stepCount = 5
    /\ getMediaKey # NoKey
    /\ SubSeq(getMediaKey, 1, 5) = <<"a", "a", "b", "a", "a">>
    /\ Len(mediaGroups) = 3
    /\ mediaGroups[3].key = "a"

\* C3: for stepCount > 0 there is at least one group; the groups are in step
\* order; each group's stepIndices is exactly startIndex..endIndex (so its
\* length is endIndex - startIndex + 1); the first group starts at 0, the last
\* ends at stepCount - 1, and each next group starts at the previous group's
\* endIndex + 1.
C3_GroupsAreContiguousRanges ==
    stepCount > 0 =>
        /\ Len(mediaGroups) >= 1
        /\ \A g \in 1 .. Len(mediaGroups) :
              LET grp == mediaGroups[g]
              IN  /\ grp.startIndex <= grp.endIndex
                  /\ Len(grp.stepIndices) = grp.endIndex - grp.startIndex + 1
                  /\ \A j \in 1 .. Len(grp.stepIndices) :
                        grp.stepIndices[j] = grp.startIndex + j - 1
        /\ mediaGroups[1].startIndex = 0
        /\ mediaGroups[Len(mediaGroups)].endIndex = stepCount - 1
        /\ \A g \in 1 .. Len(mediaGroups) - 1 :
              mediaGroups[g + 1].startIndex = mediaGroups[g].endIndex + 1

C3_Witness ==
    /\ stepCount = 6
    /\ Len(mediaGroups) = 2
    /\ mediaGroups[1].endIndex = 3
    /\ mediaGroups[2].stepIndices = <<4, 5>>

---------------------------------------------------------------------------
(* Step activation and group progress: C4 - C10, checked under Spec (C10 *)
(* under SpecClick) *)

\* a progress event was delivered in this step (the only way scrollYProgress changes)
ProgressEvent == scrollYProgress' # scrollYProgress

\* clamp(v, 0, 1) of a progress value, stated by cases
ClampedInUnit(v) == IF v < 0 THEN 0 ELSE IF v > Den THEN Den ELSE v

\* C4: in VerticalTimeline and HorizontalTimeline with stepCount > 0, after a
\* progress event with any value v the active index is
\* floor(clamp(v,0,1) * (stepCount - 1)), and it lies within [0, stepCount-1].
C4_TimelineActiveIndex ==
    [][(ProgressEvent /\ kind \in TimelineKinds /\ stepCount > 0) =>
          LET x == ClampedInUnit(scrollYProgress') * (stepCount - 1)
          IN  /\ activeIndex' * Den <= x
              /\ x < (activeIndex' + 1) * Den
              /\ activeIndex' \in 0 .. stepCount - 1]_vars

C4_Witness ==
    /\ kind = "horizontal"
    /\ stepCount = MAX_STEP_COUNT
    /\ scrollYProgress = (5 * Den) \div 7 - 1
    /\ activeIndex = 4

\* C5: in HighlightStep every step has an equal share of the progress domain:
\* for every stepCount in 1..6, step i and progress p in [0,1], step i is the
\* active step exactly when i/stepCount <= p < (i+1)/stepCount, with p = 1
\* mapped to the last step.
C5_HighlightEqualShares ==
    [][(ProgressEvent /\ kind = "highlight" /\ stepCount > 0
          /\ scrollYProgress' >= 0 /\ scrollYProgress' <= Den) =>
          \A i \in 0 .. stepCount - 1 :
              (activeIndex' = i) <=>
                  IF scrollYProgress' = Den THEN i = stepCount - 1
                  ELSE /\ i * Den <= scrollYProgress' * stepCount
                       /\ scrollYProgress' * stepCount < (i + 1) * Den]_vars

C5_Witness ==
    /\ kind = "highlight"
    /\ stepCount = HIGHLIGHT_MAX_STEP_COUNT
    /\ scrollYProgress = (5 * Den) \div 6 - 1
    /\ activeIndex = 4

\* C6: when stepCount is 0 no media groups are built, a progress event of any
\* value leaves the active index unchanged, and the widget renders nothing.
C6_ZeroStepsIsNoOp ==
    /\ [](stepCount = 0 => (mediaGroups = << >> /\ RenderedSteps = {}))
    /\ [][(ProgressEvent /\ stepCount = 0) =>
             (activeIndex' = activeIndex /\ mediaGroups' = << >> /\ RenderedSteps' = {})]_vars

C6_Witness ==
    /\ stepCount = 0
    /\ ~effectPending
    /\ scrollYProgress = Den + 1
    /\ activeIndex = 0
    /\ mediaGroups = << >>

\* C7: for every overall progress v, group g and stepCount > 0, the value
\* handed to the group's MediaComponent is
\* clamp((v * stepCount - g.startIndex) / max(|g.stepIndices|, 1), 0, 1); it
\* lies in [0,1] even when v is outside [0,1].
C7_GroupProgressFormula ==
    stepCount > 0 =>
        \A g \in 1 .. Len(mediaGroups) :
            LET grp == mediaGroups[g]
                size == IF Len(grp.stepIndices) > 1 THEN Len(grp.stepIndices) ELSE 1
                \* (v * stepCount - startIndex) / size, as a numerator over Den * size
                local == scrollYProgress * stepCount - grp.startIndex * Den
                r == MediaProgress(g)
            IN  /\ r.den = Den * size
                /\ 0 <= r.num /\ r.num <= r.den
                /\ local <= 0 => r.num = 0
                /\ local >= r.den => r.num = r.den
                /\ (0 < local /\ local < r.den) => r.num = local

C7_Witness ==
    /\ stepCount = 6
    /\ \E g \in 1 .. Len(mediaGroups) :
          /\ mediaGroups[g].startIndex = 3
          /\ Len(mediaGroups[g].stepIndices) = 3
          /\ MediaProgress(g).num * 2 = MediaProgress(g).den

\* C8: for a fixed group and stepCount the group progress is monotonically
\* non-decreasing in overall progress: p1 <= p2 in [0,1] implies
\* groupProgress(p1) <= groupProgress(p2).
C8_GroupProgressMonotone ==
    [][(/\ stepCount' = stepCount
        /\ getMediaKey' = getMediaKey
        /\ 0 <= scrollYProgress
        /\ scrollYProgress <= scrollYProgress'
        /\ scrollYProgress' <= Den) =>
          \A g \in 1 .. Len(mediaGroups) :
              groupProgress(scrollYProgress, mediaGroups[g], stepCount).num
                 <= groupProgress(scrollYProgress', mediaGroups'[g], stepCount').num]_vars

C8_Witness ==
    /\ stepCount = 4
    /\ Len(mediaGroups) = 2
    /\ scrollYProgress = (5 * Den) \div 8
    /\ MediaProgress(1).num = MediaProgress(1).den
    /\ MediaProgress(2).num * 4 = MediaProgress(2).den

\* the progress values of [0,1] that the scroll observer delivers
UnitProgress == {q \in ProgressInputs : 0 <= q /\ q <= Den}

SetMin(S) == CHOOSE x \in S : \A y \in S : x <= y

\* the progress values at which the component's rule makes group grp the
\* active group, and those at which it has moved on to a later group
ActiveSpan(grp) ==
    {q \in UnitProgress :
        LET a == NextIndex(kind, q, stepCount)
        IN  a >= grp.startIndex /\ a <= grp.endIndex}
PastSpan(grp) == {q \in UnitProgress : NextIndex(kind, q, stepCount) > grp.endIndex}

\* C9: in VerticalTimeline and HorizontalTimeline a media group's progress
\* runs from 0 to 1 across exactly the span in which the group is active: it
\* is 0 at the smallest overall progress at which the group is the active
\* group and 1 at the overall progress at which the group stops being active
\* (at progress 1 for the last group).
C9_GroupProgressSpansActivity ==
    (kind \in TimelineKinds /\ stepCount > 0) =>
        \A g \in 1 .. Len(mediaGroups) :
            LET grp == mediaGroups[g]
                entry == SetMin(ActiveSpan(grp))
                exit == IF g = Len(mediaGroups) THEN Den ELSE SetMin(PastSpan(grp))
            IN  /\ (ActiveSpan(grp) # {} /\ scrollYProgress = entry)
                      => MediaProgress(g).num = 0
                /\ scrollYProgress = exit
                      => MediaProgress(g).num = MediaProgress(g).den

\* the same statement of HighlightStep, whose activation rule divides the
\* progress domain by stepCount as the group progress does
HighlightGroupProgressSpansActivity ==
    (kind = "highlight" /\ stepCount > 0) =>
        \A g \in 1 .. Len(mediaGroups) :
            LET grp == mediaGroups[g]
                entry == SetMin(ActiveSpan(grp))
                exit == IF g = Len(mediaGroups) THEN Den ELSE SetMin(PastSpan(grp))
            IN  /\ (ActiveSpan(grp) # {} /\ scrollYProgress = entry)
                      => MediaProgress(g).num = 0
                /\ scrollYProgress = exit
                      => MediaProgress(g).num = MediaProgress(g).den

\* C10: clicking node i of VerticalTimeline or HorizontalTimeline jumps to
\* step i: when the scroll range is positive, the section progress targeted by
\* scrollToStep(i), (i + 0.001)/stepCount, is mapped by the component's own
\* active-step rule to active index i (the change event that delivers that
\* position leaves node i active).
C10_ClickActivatesStep ==
    [][\A i \in 0 .. stepCount - 1 :
          (/\ ProgressEvent
           /\ kind \in TimelineKinds
           /\ stepCount' = stepCount
           /\ scrollYProgress' = TargetProgress(i, stepCount)) => activeIndex' = i]_vars

\* the same statement of HighlightStep
HighlightClickActivatesStep ==
    [][\A i \in 0 .. stepCount - 1 :
          (/\ ProgressEvent
           /\ kind = "highlight"
           /\ stepCount' = stepCount
           /\ scrollYProgress' = TargetProgress(i, stepCount)) => activeIndex' = i]_vars


---------------------------------------------------------------------------
(* Exposed progress values and MapTimeline: C11 - C13, checked under Spec *)

\* a fraction num/den lies in [0,1]
InUnit(value) == 0 <= value.num /\ value.num <= value.den

\* C11: every progress value the widgets expose to a consumer lies in [0,1]
\* for every value of the input signal, values below 0 or above 1 included:
\* the scrollProgress handed to StepComponent, the group progress handed to
\* MediaComponent, and the progress handed to MapRoute.
C11_ExposedProgressInUnit ==
    stepCount > 0 =>
        /\ 0 <= StepScrollProgress /\ StepScrollProgress <= Den
        /\ \A g \in 1 .. Len(mediaGroups) : InUnit(MediaProgress(g))
        /\ getMediaKey = MapKey =>
              \A g \in 1 .. Len(mediaGroups) : InUnit(MapTimelineProgress(g))

\* the part of C11 about MediaComponent and MapRoute
MediaAndMapProgressInUnit ==
    stepCount > 0 =>
        \A g \in 1 .. Len(mediaGroups) :
            InUnit(MediaProgress(g)) /\ InUnit(MapTimelineProgress(g))

\* C12: in MapTimeline (a vertical or horizontal timeline with the constant
\* map key) with at least one step there is exactly one media group, it covers
\* all the steps, it is active for every active index, and its local progress
\* (hence the progress given to MapRoute) equals the section progress clamped
\* to [0,1].
C12_MapIsOneGroup ==
    (kind \in TimelineKinds /\ getMediaKey = MapKey /\ stepCount > 0) =>
        /\ Len(mediaGroups) = 1
        /\ mediaGroups[1].stepIndices = [j \in 1 .. stepCount |-> j - 1]
        /\ \A i \in 0 .. stepCount - 1 :
              mediaGroups[1].startIndex <= i /\ i <= mediaGroups[1].endIndex
        /\ ~effectPending => isActive(mediaGroups[1])
        /\ MediaProgress(1).den = Den * stepCount
        /\ MediaProgress(1).num = ClampedInUnit(scrollYProgress) * stepCount
        /\ MapTimelineProgress(1) = MediaProgress(1)

C12_Witness ==
    /\ kind \in TimelineKinds
    /\ getMediaKey = MapKey
    /\ stepCount = 5
    /\ activeIndex = 2
    /\ scrollYProgress = (5 * Den) \div 8
    /\ MapTimelineProgress(1).num * 8 = 5 * MapTimelineProgress(1).den

\* C13: in MapTimeline, for every route of 2 to 25 coordinates, the number
\* of timeline steps equals the number of route coordinates and step i is
\* rendered with routeItem = route[i]: every coordinate has a step.
C13_StepPerCoordinate ==
    [][\A n \in 2 .. MaxStepsProp :
          (/\ kind \in TimelineKinds
           /\ getMediaKey = MapKey
           /\ SetSteps(MapTimelineSteps(n)))
          => /\ stepCount' = n
             /\ MapTimelineStepItems(n)' = 0 .. n - 1]_vars

\* the same statement of the routes of at most MAX_STEP_COUNT coordinates
StepPerCoordinateUpToMax ==
    [][\A n \in 2 .. MAX_STEP_COUNT :
          (/\ kind \in TimelineKinds
           /\ getMediaKey = MapKey
           /\ SetSteps(MapTimelineSteps(n)))
          => /\ stepCount' = n
             /\ MapTimelineStepItems(n)' = 0 .. n - 1]_vars


---------------------------------------------------------------------------
(* The route functions: C14, C16 - C19, checked under SpecRoute *)

\* an entry that is no pair, or has a component that is no finite number, or
\* lies outside longitude [-180,180] or latitude [-90,90]
BadEntry(entry) ==
    IF ~entry.isArray \/ Len(entry.items) # 2 THEN TRUE
    ELSE LET lng == entry.items[1].n
             lat == entry.items[2].n
         IN  \/ lng.k # "finite" \/ lat.k # "finite"
             \/ lng.v < -180 \/ lng.v > 180
             \/ lat.v < -90 \/ lat.v > 90

\* C14: normalizeCoordinates never partially succeeds: it returns an error
\* exactly when the list has fewer than 2 or more than 25 entries or some entry
\* is not a pair, has a non-finite component, or has longitude outside
\* [-180,180] or latitude outside [-90,90]; on error the point list is empty,
\* otherwise the error is null and the point list has the length and the order
\* of the input.
C14_NormalizeAllOrNothing ==
    geo.op = "normalizeCoordinates" =>
        LET coordinates == geo.args.coordinates
            r == geo.result
        IN  /\ (r.error # Null) <=>
                  \/ Len(coordinates) < 2 \/ Len(coordinates) > 25
                  \/ \E i \in 1 .. Len(coordinates) : BadEntry(coordinates[i])
            /\ r.error # Null => r.points = << >>
            /\ r.error = Null =>
                  /\ Len(r.points) = Len(coordinates)
                  /\ \A i \in 1 .. Len(coordinates) :
                        r.points[i] = << coordinates[i].items[1].n.v,
                                         coordinates[i].items[2].n.v >>

C14_Witness ==
    /\ geo.op = "normalizeCoordinates"
    /\ geo.args.coordinates = <<Pair(0, 0), Pair(180, 90), Pair(0, 91)>>
    /\ geo.result.error = "Longitude or latitude is out of range."
    /\ geo.result.points = << >>

\* least common multiple, floor of a square root
LCM(a, b) == (a * b) \div GCD(a, b)
RECURSIVE SqrtFloor(_, _, _)
SqrtFloor(n, lo, hi) ==
    IF lo >= hi THEN lo
    ELSE LET mid == (lo + hi + 1) \div 2
         IN  IF mid * mid <= n THEN SqrtFloor(n, mid, hi) ELSE SqrtFloor(n, lo, mid - 1)

\* the planar Euclidean distance of two points with rational coordinates,
\* and whether it is a rational
PieceLength(a, b) ==
    LET d == LCM(LCM(a[1].den, a[2].den), LCM(b[1].den, b[2].den))
        dx == b[1].num * (d \div b[1].den) - a[1].num * (d \div a[1].den)
        dy == b[2].num * (d \div b[2].den) - a[2].num * (d \div a[2].den)
        square == dx * dx + dy * dy
        root == SqrtFloor(square, 0, Abs(dx) + Abs(dy))
    IN  [exact |-> root * root = square, length |-> Frac(root, d)]

\* the arc length of a list of points: the distances of consecutive points, summed
RECURSIVE ArcLength(_)
ArcLength(points) ==
    IF Len(points) <= 1 THEN [exact |-> TRUE, length |-> Zero]
    ELSE LET piece == PieceLength(points[1], points[2])
             rest == ArcLength(Tail(points))
         IN  [exact |-> piece.exact /\ rest.exact,
              length |-> FracAdd(piece.length, rest.length)]

\* C16 as stated: on a non-empty polyline sliceRouteByProgress returns
\* [polyline[0]] whenever progress <= 0 or the total length is 0, and the full,
\* unmodified polyline whenever progress >= 1.
C16_SliceEndCases ==
    (geo.op = "sliceRouteByProgress" /\ Len(geo.args.coordinates) > 0) =>
        LET line == geo.args.coordinates
            p == geo.args.progress
            total == ArcLength(WholeLine(line)).length
        IN  /\ (p.num <= 0 \/ total.num = 0) => geo.result = <<ExactPoint(line[1])>>
            /\ p.num >= p.den => geo.result = WholeLine(line)

\* C16, amended: on a non-empty polyline sliceRouteByProgress returns
\* [polyline[0]] whenever progress <= 0, and whenever the total length is 0
\* and progress < 1; it returns the full, unmodified polyline whenever
\* progress >= 1 (also when the total length is 0).
C16_SliceEndCasesAmended ==
    (geo.op = "sliceRouteByProgress" /\ Len(geo.args.coordinates) > 0) =>
        LET line == geo.args.coordinates
            p == geo.args.progress
            total == ArcLength(WholeLine(line)).length
        IN  /\ (p.num <= 0 \/ (total.num = 0 /\ p.num < p.den))
                  => geo.result = <<ExactPoint(line[1])>>
            /\ p.num >= p.den => geo.result = WholeLine(line)

C16_Witness ==
    /\ geo.op = "sliceRouteByProgress"
    /\ geo.args.coordinates = << <<0, 3>>, <<0, 3>>, <<0, 3>> >>
    /\ geo.args.progress.num >= geo.args.progress.den
    /\ geo.result = WholeLine(geo.args.coordinates)

\* C17: for every polyline of positive total length and every progress p
\* strictly between 0 and 1, the arc length of sliceRouteByProgress(polyline, p)
\* is p * totalLength, lengths being planar Euclidean distances summed over
\* consecutive points.
C17_SliceArcLength ==
    geo.op = "sliceRouteByProgress" =>
        LET p == geo.args.progress
            total == ArcLength(WholeLine(geo.args.coordinates)).length
            sliced == ArcLength(geo.result)
        IN  (total.num > 0 /\ 0 < p.num /\ p.num < p.den) =>
                /\ sliced.exact
                /\ sliced.length = Frac(total.num * p.num, total.den * p.den)

C17_Witness ==
    /\ geo.op = "sliceRouteByProgress"
    /\ geo.args.coordinates = << <<0, 0>>, <<4, 3>>, <<0, 3>> >>
    /\ geo.args.progress = [num |-> 15 * 64, den |-> MapDen]
    /\ geo.result = << ExactPoint(<<0, 0>>), ExactPoint(<<4, 3>>), <<Frac(9, 4), Frac(3, 1)>> >>

\* C18 as stated: getRouteItemProgress returns exactly one threshold per
\* waypoint, the first exactly 0 and the last exactly 1, for every polyline
\* (empty and zero-length ones included) and every waypoint list.
C18_ThresholdEndpoints ==
    geo.op = "getRouteItemProgress" =>
        LET items == geo.args.routeItems
            r == geo.result
        IN  /\ Len(r) = Len(items)
            /\ Len(items) > 0 => (r[1] = Zero /\ r[Len(r)] = One)

\* C18, amended: getRouteItemProgress returns exactly one threshold per
\* waypoint for every polyline and every waypoint list; the first is exactly
\* 0 and the last exactly 1 for every non-empty polyline (zero-length ones
\* included) and every list of at least two waypoints.
C18_ThresholdEndpointsAmended ==
    geo.op = "getRouteItemProgress" =>
        LET items == geo.args.routeItems
            r == geo.result
        IN  /\ Len(r) = Len(items)
            /\ (Len(geo.args.routeLine) > 0 /\ Len(items) >= 2)
                  => (r[1] = Zero /\ r[Len(r)] = One)

C18_Witness ==
    /\ geo.op = "getRouteItemProgress"
    /\ geo.args.routeLine = << <<0, 0>>, <<0, 10>> >>
    /\ geo.args.routeItems = << <<0, 10>>, <<0, 3>>, <<0, 0>> >>
    /\ geo.result = << Zero, One, One >>

\* waypoint w lies on the segment from a to b
OnSegment(w, a, b) ==
    LET cross == (w[1] - a[1]) * (b[2] - a[2]) - (w[2] - a[2]) * (b[1] - a[1])
        dot == (w[1] - a[1]) * (b[1] - a[1]) + (w[2] - a[2]) * (b[2] - a[2])
    IN  cross = 0 /\ 0 <= dot /\ dot <= SquaredDistance(a, b)

\* the cumulative lengths and the total length of a polyline of finite
\* coordinates, as integers
LengthInfo(line) == FiniteLengths(getRouteLengthInfo(NumberLine(line)))

\* C19 as stated: the threshold of a waypoint is the fractional arc-length
\* position of the polyline point nearest to it: a waypoint lying on the
\* polyline at arc length L gets threshold L / totalLength; waypoints
\* [[0,0],[0,5],[0,10]] against polyline [[0,0],[0,3],[0,10]] yield
\* [0, 0.5, 1].
C19_ThresholdIsArcPosition ==
    geo.op = "getRouteItemProgress" =>
        LET line == geo.args.routeLine
            items == geo.args.routeItems
            info == LengthInfo(line)
        IN  /\ info.totalLength > 0 =>
                  \A k \in 1 .. Len(items) : \A i \in 2 .. Len(line) :
                      LET a == line[i - 1]
                          b == line[i]
                          segment == info.cumulativeLengths[i] - info.cumulativeLengths[i - 1]
                          dot == (items[k][1] - a[1]) * (b[1] - a[1])
                                 + (items[k][2] - a[2]) * (b[2] - a[2])
                      IN  (segment > 0 /\ OnSegment(items[k], a, b)) =>
                              geo.result[k] =
                                  Frac(info.cumulativeLengths[i - 1] * segment + dot,
                                       segment * info.totalLength)
            /\ (/\ line = << <<0, 0>>, <<0, 3>>, <<0, 10>> >>
                /\ items = << <<0, 0>>, <<0, 5>>, <<0, 10>> >>)
                  => geo.result = << Zero, Frac(1, 2), One >>

\* the first of the vertices start.. of the polyline nearest to the point
NearestVertexFrom(line, point, start) ==
    CHOOSE i \in start .. Len(line) :
        \A j \in start .. Len(line) :
            /\ SquaredDistance(point, line[i]) <= SquaredDistance(point, line[j])
            /\ j < i => SquaredDistance(point, line[i]) < SquaredDistance(point, line[j])

\* the vertex found for waypoint k: the nearest one at or after the vertex
\* found for waypoint k - 1
RECURSIVE VertexOfWaypoint(_, _, _)
VertexOfWaypoint(line, items, k) ==
    NearestVertexFrom(line, items[k],
                      IF k = 1 THEN 1 ELSE VertexOfWaypoint(line, items, k - 1))

\* C19, amended: for a polyline of positive length the threshold of a
\* waypoint other than the first and the last is the fractional arc-length
\* position of the polyline vertex nearest to it, searched at or after the
\* vertex found for the previous waypoint (the first of equally near ones);
\* waypoints [[0,0],[0,5],[0,10]] against polyline [[0,0],[0,3],[0,10]] yield
\* [0, 0.3, 1].
C19_ThresholdIsNearestVertexPosition ==
    geo.op = "getRouteItemProgress" =>
        LET line == geo.args.routeLine
            items == geo.args.routeItems
            total == ArcLength(WholeLine(line)).length
        IN  /\ total.num > 0 =>
                  \A k \in 2 .. Len(items) - 1 :
                      LET vertex == VertexOfWaypoint(line, items, k)
                          before == ArcLength(WholeLine(SubSeq(line, 1, vertex))).length
                      IN  geo.result[k] = Frac(before.num * total.den, before.den * total.num)
            /\ (/\ line = << <<0, 0>>, <<0, 3>>, <<0, 10>> >>
                /\ items = << <<0, 0>>, <<0, 5>>, <<0, 10>> >>)
                  => geo.result = << Zero, Frac(3, 10), One >>

C19_Witness ==
    /\ geo.op = "getRouteItemProgress"
    /\ geo.args.routeLine = << <<0, 0>>, <<0, 3>>, <<0, 10>> >>
    /\ geo.args.routeItems = << <<0, 0>>, <<0, 5>>, <<0, 10>> >>
    /\ geo.result = << Zero, Frac(3, 10), One >>


---------------------------------------------------------------------------
(* The MapRoute component: C15 and C20, checked under SpecMapRoute *)

\* the requests in flight that have not been aborted
LiveFetches == {i \in 1 .. Len(mapRoute.fetches) : ~mapRoute.fetches[i].aborted}

\* C15 as stated: while route validation reports an error, MapRoute renders
\* no geometry: no directions fetch is started and routeData is (re)set to
\* null (by the fetch effect), neither a route line nor any marker is
\* rendered, and only the descriptive error message is shown.
C15_ErrorRendersNoGeometry ==
    parsedRoute.error # Null =>
        /\ ~mapRoute.fetchPending => (mapRoute.routeData.isNull /\ LiveFetches = {})
        /\ View.line = << >>
        /\ View.markers = {}
        /\ View.kind = "empty"
        /\ View.message = parsedRoute.error

\* C15, amended: while route validation reports an error, MapRoute renders
\* no geometry: no directions fetch is started and routeData is (re)set to
\* null (by the fetch effect), neither a route line nor any marker is
\* rendered, and only an empty-state message is shown: the descriptive error
\* message when MAPBOX_API_TOKEN is set, the missing-token message otherwise.
C15_ErrorRendersNoGeometryAmended ==
    parsedRoute.error # Null =>
        /\ ~mapRoute.fetchPending => (mapRoute.routeData.isNull /\ LiveFetches = {})
        /\ View.line = << >>
        /\ View.markers = {}
        /\ View.kind = "empty"
        /\ View.message = IF mapRoute.token THEN parsedRoute.error
                          ELSE "Missing MAPBOX_API_TOKEN in .env"

C15_Witness ==
    /\ mapRoute.token
    /\ mapRoute.route = <<Pair(0, 0), Pair(MAX_LNG + 1, 0)>>
    /\ ~mapRoute.fetchPending
    /\ Len(mapRoute.fetches) = 1
    /\ mapRoute.fetches[1].aborted
    /\ mapRoute.routeData.isNull
    /\ View.message = "Longitude or latitude is out of range."

\* C20 as stated: in MapRoute with a valid route, marker i is visible exactly
\* when the clamped displayed progress is >= threshold[i]; the first
\* waypoint's marker is visible at every progress in [0,1] and the last
\* waypoint's marker only when the displayed progress is exactly 1, whether or
\* not a fetched polyline is available.
C20_MarkerVisibility ==
    parsedRoute.error = Null =>
        LET n == Len(parsedRoute.points)
            threshold == routeItemProgress
            markers == View.markers
        IN  /\ Len(threshold) = n
            /\ \A i \in 1 .. n :
                  (i \in markers) <=>
                      (clampedProgress.num * threshold[i].den
                          >= threshold[i].num * clampedProgress.den)
            /\ 1 \in markers
            /\ (n \in markers) <=> (displayProgress.num = displayProgress.den)

\* C20, amended: in MapRoute with a valid route and MAPBOX_API_TOKEN set,
\* marker i is visible exactly when the clamped displayed progress is >=
\* threshold[i]; the first waypoint's marker is visible at every progress
\* and the last waypoint's marker only when the clamped displayed progress
\* is exactly 1, that is when the displayed progress is 1 or more (a frame
\* stamped before the animation's start time takes it beyond 1), whether or
\* not a fetched polyline is available.  Without the token no marker is
\* rendered.
C20_MarkerVisibilityAmended ==
    parsedRoute.error = Null =>
        LET n == Len(parsedRoute.points)
            threshold == routeItemProgress
            markers == View.markers
        IN  IF mapRoute.token
            THEN /\ Len(threshold) = n
                 /\ \A i \in 1 .. n :
                       (i \in markers) <=>
                           (clampedProgress.num * threshold[i].den
                               >= threshold[i].num * clampedProgress.den)
                 /\ 1 \in markers
                 /\ (n \in markers) <=> (clampedProgress.num = clampedProgress.den)
                 /\ (n \in markers) <=> (displayProgress.num >= displayProgress.den)
            ELSE markers = {}

C20_Witness ==
    /\ mapRoute.token
    /\ mapRoute.route = <<Pair(0, 0), Pair(0, 5), Pair(0, 10)>>
    /\ ~mapRoute.routeData.isNull
    /\ mapRoute.routeData.coordinates = << <<0, 0>>, <<0, 3>>, <<0, 10>> >>
    /\ mapRoute.progress.set
    /\ mapRoute.animatedProgress = Frac(7, 8)
    /\ View.markers = {1, 2}

\* the last marker is shown at a displayed progress beyond 1: the animation
\* from 1 to 0 has had a frame stamped before its start time
LastMarkerShownBeyondOne ==
    /\ mapRoute.token
    /\ mapRoute.route = <<Pair(0, 0), Pair(0, 5), Pair(0, 10)>>
    /\ mapRoute.progress.set
    /\ mapRoute.animatedProgress = Frac(27, 8)
    /\ View.markers = {1, 2, 3}

---------------------------------------------------------------------------
(* The route functions: C22 - C24, checked under SpecRoute *)

\* the segment containing the target length progress * totalLength: the first
\* point i whose cumulative length reaches it
CutSegment(line, p) ==
    LET info == LengthInfo(line)
    IN  CHOOSE i \in 2 .. Len(line) :
            /\ info.cumulativeLengths[i] * p.den >= info.totalLength * p.num
            /\ \A j \in 2 .. i - 1 :
                  info.cumulativeLengths[j] * p.den < info.totalLength * p.num

\* the point of segment c at ratio (targetLength - traveled) / segmentLength
PointAtRatio(line, p, c) ==
    LET info == LengthInfo(line)
        traveled == info.cumulativeLengths[c - 1]
        segment == info.cumulativeLengths[c] - traveled
        over == info.totalLength * p.num - traveled * p.den
        den == p.den * segment
    IN  << Frac(line[c - 1][1] * den + (line[c][1] - line[c - 1][1]) * over, den),
           Frac(line[c - 1][2] * den + (line[c][2] - line[c - 1][2]) * over, den) >>

\* the points of a list that differ from their predecessor
RECURSIVE WithoutRepeats(_)
WithoutRepeats(points) ==
    IF Len(points) <= 1 THEN points
    ELSE LET front == SubSeq(points, 1, Len(points) - 1)
             last == points[Len(points)]
         IN  IF last = points[Len(points) - 1] THEN WithoutRepeats(front)
             ELSE Append(WithoutRepeats(front), last)

\* C22 as stated: for a polyline of positive total length and 0 < progress < 1
\* sliceRouteByProgress returns, in order, every point of the input that
\* precedes the segment containing the target length, duplicates included,
\* followed by exactly one cut point interpolated on that segment at ratio
\* (targetLength - traveled) / segmentLength; [[0,0],[0,3],[0,10]] at 0.5
\* gives [[0,0],[0,3],[0,5]].
C22_SlicePrefixAndCut ==
    geo.op = "sliceRouteByProgress" =>
        LET line == geo.args.coordinates
            p == geo.args.progress
        IN  (LengthInfo(line).totalLength > 0 /\ 0 < p.num /\ p.num < p.den) =>
                LET c == CutSegment(line, p)
                IN  /\ geo.result = Append(WholeLine(SubSeq(line, 1, c - 1)),
                                           PointAtRatio(line, p, c))
                    /\ (line = << <<0, 0>>, <<0, 3>>, <<0, 10>> >> /\ 2 * p.num = p.den)
                          => geo.result = << ExactPoint(<<0, 0>>), ExactPoint(<<0, 3>>),
                                             ExactPoint(<<0, 5>>) >>

\* C22, amended: for a polyline of positive total length and 0 < progress < 1
\* sliceRouteByProgress returns, in order, the points of the input that
\* precede the segment containing the target length, those that repeat their
\* predecessor left out, followed by exactly one cut point interpolated on
\* that segment at ratio (targetLength - traveled) / segmentLength;
\* [[0,0],[0,3],[0,10]] at 0.5 gives [[0,0],[0,3],[0,5]].
C22_SlicePrefixWithoutRepeatsAndCut ==
    geo.op = "sliceRouteByProgress" =>
        LET line == geo.args.coordinates
            p == geo.args.progress
        IN  (LengthInfo(line).totalLength > 0 /\ 0 < p.num /\ p.num < p.den) =>
                LET c == CutSegment(line, p)
                IN  /\ geo.result = Append(WholeLine(WithoutRepeats(SubSeq(line, 1, c - 1))),
                                           PointAtRatio(line, p, c))
                    /\ (line = << <<0, 0>>, <<0, 3>>, <<0, 10>> >> /\ 2 * p.num = p.den)
                          => geo.result = << ExactPoint(<<0, 0>>), ExactPoint(<<0, 3>>),
                                             ExactPoint(<<0, 5>>) >>

C22_Witness ==
    /\ geo.op = "sliceRouteByProgress"
    /\ geo.args.coordinates = << <<0, 0>>, <<0, 0>>, <<0, 10>> >>
    /\ geo.args.progress = [num |-> 10 * 64, den |-> MapDen]
    /\ geo.result = << ExactPoint(<<0, 0>>), ExactPoint(<<0, 5>>) >>

\* x <= y for rationals with positive denominators
FracLeq(x, y) == x.num * y.den <= y.num * x.den

\* the markers shown at progress q: those whose threshold q has reached
VisibleAt(thresholds, q) ==
    {k \in 1 .. Len(thresholds) : FracLeq(thresholds[k], clampProgress(q))}

\* C23: the reveal thresholds are non-decreasing in waypoint index for every
\* polyline and every waypoint list; hence at every progress the visible
\* markers are a prefix of the waypoint list, and the set only grows as
\* progress increases.
C23_ThresholdsNonDecreasing ==
    geo.op = "getRouteItemProgress" =>
        LET r == geo.result
        IN  /\ \A k \in 1 .. Len(r) - 1 : FracLeq(r[k], r[k + 1])
            /\ \A q \in SliceProgressInputs :
                  \E n \in 0 .. Len(r) : VisibleAt(r, q) = 1 .. n
            /\ \A q1, q2 \in SliceProgressInputs :
                  q1.num <= q2.num => VisibleAt(r, q1) \subseteq VisibleAt(r, q2)

C23_Witness ==
    /\ geo.op = "getRouteItemProgress"
    /\ geo.args.routeLine = << <<0, 0>>, <<0, 3>>, <<0, 10>> >>
    /\ geo.args.routeItems = << <<0, 0>>, <<0, 10>>, <<0, 3>>, <<0, 10>> >>
    /\ geo.result = << Zero, One, One, One >>
    /\ VisibleAt(geo.result, [num |-> 10 * 64, den |-> MapDen]) = {1}

\* the total length of a polyline of numbers is not finite: it has a segment
\* one of whose ends has a coordinate that is infinite or NaN
NonFiniteLength(line) ==
    \E i \in 2 .. Len(line) : \E j \in {i - 1, i} : \E c \in 1 .. 2 :
        ~isFinite(line[j][c])

\* the total length of a polyline of numbers is 0: it has no segment, or
\* every segment joins two equal points of finite coordinates
ZeroLength(line) ==
    /\ Len(line) > 0
    /\ ~NonFiniteLength(line)
    /\ \A i \in 2 .. Len(line) : line[i] = line[i - 1]

\* C24: the degenerate inputs of getRouteItemProgress have fixed fallbacks and
\* no division by zero: an empty waypoint list gives an empty array; an empty
\* polyline gives threshold 0 for every waypoint; a polyline of one or more
\* points whose total length is 0, or is not finite (Infinity or NaN, as a
\* polyline with an infinite or NaN coordinate has), gives 0 for waypoint 0
\* and 1 for every other waypoint; every threshold returned is a number.
C24_DegenerateFallbacks ==
    /\ geo.op = "getRouteItemProgress" =>
          LET line == geo.args.routeLine
              items == geo.args.routeItems
              r == geo.result
          IN  /\ Len(items) = 0 => r = << >>
              /\ Len(line) = 0 => r = [k \in 1 .. Len(items) |-> Zero]
              /\ (Len(line) > 0 /\ ArcLength(WholeLine(line)).length = Zero)
                    => r = [k \in 1 .. Len(items) |-> IF k = 1 THEN Zero ELSE One]
              /\ \A k \in 1 .. Len(r) : r[k].den > 0
    /\ geo.op = "getRouteItemProgress of numbers" =>
          LET line == geo.args.routeLine
              items == geo.args.routeItems
              r == geo.result
          IN  /\ Len(items) = 0 => r = << >>
              /\ Len(line) = 0 => r = [k \in 1 .. Len(items) |-> Zero]
              /\ (ZeroLength(line) \/ NonFiniteLength(line))
                    => r = [k \in 1 .. Len(items) |-> IF k = 1 THEN Zero ELSE One]
              /\ \A k \in 1 .. Len(r) : r[k].den > 0

\* the fallback of a total length that is not finite has acted: the segment
\* from [0,0] to [Infinity,0] has length Infinity
C24_Witness ==
    /\ geo.op = "getRouteItemProgress of numbers"
    /\ geo.args.routeLine = << <<FiniteNumber(0), FiniteNumber(0)>>,
                               <<PositiveInfinity, FiniteNumber(0)>> >>
    /\ geo.args.routeItems = << <<0, 0>>, <<0, 10>>, <<0, 10>> >>
    /\ geo.result = << Zero, One, One >>

\* the same fallback on a total length of NaN: the segment between two points
\* of longitude Infinity has length NaN
NaNLengthFallbackReached ==
    /\ geo.op = "getRouteItemProgress of numbers"
    /\ geo.args.routeLine = << <<PositiveInfinity, FiniteNumber(0)>>,
                               <<PositiveInfinity, FiniteNumber(0)>> >>
    /\ getRouteLengthInfo(geo.args.routeLine).totalLength = NaN
    /\ geo.args.routeItems = << <<0, 0>>, <<0, 10>>, <<0, 10>> >>
    /\ geo.result = << Zero, One, One >>

\* the fallback of the empty polyline has acted
EmptyLineFallbackReached ==
    /\ geo.op = "getRouteItemProgress"
    /\ geo.args.routeLine = << >>
    /\ geo.args.routeItems = << <<0, 0>>, <<0, 5>>, <<0, 10>> >>
    /\ geo.result = << Zero, Zero, Zero >>

\* the zero-length fallback has acted
ZeroLengthFallbackReached ==
    /\ geo.op = "getRouteItemProgress"
    /\ geo.args.routeLine = << <<0, 3>>, <<0, 3>> >>
    /\ geo.args.routeItems = << <<0, 0>>, <<0, 5>>, <<0, 10>> >>
    /\ geo.result = << Zero, One, One >>

---------------------------------------------------------------------------
(* The MapRoute component: C27, C29 and C30, checked under SpecMapRoute *)
(* and SpecMapRouteFair                                                  *)

\* C27: while no fetched polyline is available (fetch not started, in
\* flight, or failed) MapRoute renders no route line, for every progress
\* value; a route line is rendered only when a polyline is present and its
\* slice at the displayed progress has at least two points.
C27_LineOnlyFromSlicedPolyline ==
    mapRoute.mounted =>
        /\ mapRoute.routeData.isNull => View.line = << >>
        /\ View.line # << >> =>
              /\ ~mapRoute.routeData.isNull
              /\ Len(sliceRouteByProgress(mapRoute.routeData.coordinates,
                                          clampedProgress)) >= 2

\* the part of C27 that holds: without a fetched polyline no line is
\* rendered, and with a progress value a line is rendered only when the
\* slice of the polyline has at least two points
LineOnlyFromSlicedPolylineWithProgress ==
    mapRoute.mounted =>
        /\ mapRoute.routeData.isNull => View.line = << >>
        /\ (View.line # << >> /\ mapRoute.progress.set) =>
              /\ ~mapRoute.routeData.isNull
              /\ View.line = sliceRouteByProgress(mapRoute.routeData.coordinates,
                                                  clampedProgress)
              /\ Len(View.line) >= 2

\* progress omitted, a fetched polyline of one point: it is the route line
OnePointLineRendered ==
    /\ mapRoute.mounted
    /\ ~mapRoute.progress.set
    /\ mapRoute.routeData = buildFeatureCollection(<< <<0, 10>> >>)
    /\ View.line = << ExactPoint(<<0, 10>>) >>

\* C29: isLoading is true whenever a directions fetch that has not been
\* aborted is in flight: the completion of an aborted earlier fetch does not
\* set isLoading to false while the newer fetch is pending.
C29_LoadingWhileFetchInFlight ==
    (mapRoute.mounted /\ LiveFetches # {}) => mapRoute.isLoading

\* the part of C29 that holds: the completion of an aborted fetch writes
\* neither routeData nor routeError
AbortedFetchWritesNoResult ==
    [][(/\ mapRoute.mounted
        /\ \E i \in 1 .. Len(mapRoute.fetches) :
              /\ mapRoute.fetches[i].aborted
              /\ \/ \E response \in Responses : FetchResponds(i, response)
                 \/ \E data \in Bodies : FetchBodyArrives(i, data))
          => (/\ mapRoute'.routeData = mapRoute.routeData
              /\ mapRoute'.routeError = mapRoute.routeError)]_vars

\* the newer fetch is in flight, the aborted one has completed, and the
\* loading badge is gone
NotLoadingWhileFetchInFlight ==
    /\ mapRoute.mounted
    /\ Len(mapRoute.fetches) = 1
    /\ ~mapRoute.fetches[1].aborted
    /\ ~mapRoute.isLoading
    /\ View.badge = Null

\* the progress effect runs while an animation is running
RestartsAnimation ==
    /\ mapRoute.mounted /\ mapRoute.progressPending /\ mapRoute.animation.active
    /\ FlushEffects

\* C30: if the progress prop stops changing and animation frames keep being
\* delivered, the displayed progress eventually equals clamp(progress, 0, 1)
\* (1 with progress omitted) and stays there; a progress change arriving
\* mid-animation cancels the running animation and restarts from the
\* currently displayed value; the displayed value never leaves [0,1].
C30_AnimationSettles ==
    /\ \A p \in ProgressProps :
          <>[](mapRoute.progress = p)
              => <>[](displayProgress = IF p.set THEN clampedTarget(p) ELSE One)
    /\ [][RestartsAnimation =>
             IF ~mapRoute.progress.set THEN ~mapRoute'.animation.active
             ELSE /\ mapRoute'.animatedProgress = mapRoute.animatedProgress
                  /\ \/ /\ ~mapRoute'.animation.active
                        /\ mapRoute.animatedProgress = clampedTarget(mapRoute.progress)
                     \/ /\ mapRoute'.animation.active
                        /\ mapRoute'.animation.start = mapRoute.animatedProgress
                        /\ mapRoute'.animation.target = clampedTarget(mapRoute.progress)]_vars
    /\ [](0 <= displayProgress.num /\ displayProgress.num <= displayProgress.den)

\* the parts of C30 taken one at a time
AnimationReachesTarget ==
    \A p \in ProgressProps :
        <>[](mapRoute.progress = p)
            => <>[](displayProgress = IF p.set THEN clampedTarget(p) ELSE One)
AnimationRestartsFromRef ==
    [][RestartsAnimation =>
          IF ~mapRoute.progress.set THEN ~mapRoute'.animation.active
          ELSE \/ /\ ~mapRoute'.animation.active
                  /\ mapRoute.renderedProgress = clampedTarget(mapRoute.progress)
               \/ /\ mapRoute'.animation.active
                  /\ mapRoute'.animation.start = mapRoute.renderedProgress
                  /\ mapRoute'.animation.target = clampedTarget(mapRoute.progress)]_vars
DisplayedProgressInRange ==
    [](0 <= displayProgress.num /\ displayProgress.num <= displayProgress.den)

\* progress is -0.25, nothing is scheduled and no animation is running, and
\* the route is drawn in full
AtRestAwayFromTarget ==
    /\ mapRoute.mounted
    /\ mapRoute.progress = ProgressOf(-64 * 5)
    /\ ~EffectsPending
    /\ ~mapRoute.animation.active
    /\ mapRoute.animatedProgress = One
    /\ mapRoute.renderedProgress = One
    /\ mapRoute.animatedProgressRef = One

---------------------------------------------------------------------------
(* The widgets over their histories: C21 and C28, checked under Spec *)

\* the active index is the one the current progress value gives
IndexOfLatest == activeIndex = NextIndex(kind, scrollYProgress, stepCount)

\* the progress of group g is clamp((v * stepCount - startIndex) / size, 0, 1)
\* of the current value v of the signal
GroupProgressOfLatest(g) ==
    LET size == Max(Len(mediaGroups[g].stepIndices), 1)
        raw == scrollYProgress * stepCount - mediaGroups[g].startIndex * Den
    IN  /\ MediaProgress(g).den = Den * size
        /\ MediaProgress(g).num =
              (IF raw < 0 THEN 0 ELSE IF raw > Den * size THEN Den * size ELSE raw)

\* C21: most recent value wins: with a fixed stepCount > 0, after a progress
\* event the active index and the progress of every group are those given by
\* the value of that event alone, whatever the earlier events were, and they
\* stay so until the next event.
C21_MostRecentValueWins ==
    /\ [][(stepCount > 0 /\ stepCount' = stepCount) =>
             /\ ProgressEvent => IndexOfLatest'
             /\ (~ProgressEvent /\ IndexOfLatest) => IndexOfLatest']_vars
    /\ [](stepCount > 0 => \A g \in 1 .. Len(mediaGroups) : GroupProgressOfLatest(g))

\* the signal has gone back to 1/4 of a five-step timeline: step 1 is active
C21_Witness ==
    /\ kind = "vertical"
    /\ stepCount = 5
    /\ scrollYProgress = Den \div 4
    /\ activeIndex = 1
    /\ ~effectPending

\* the groups whose [startIndex, endIndex] contains activeIndex
ActiveGroups == {g \in 1 .. Len(mediaGroups) : isActive(mediaGroups[g])}

\* C28: under any interleaving of progress events and step-count changes,
\* every rendered state with stepCount > 0 has 0 <= activeIndex <=
\* stepCount - 1 and exactly one active media group.
C28_ActiveIndexInRange ==
    stepCount > 0 =>
        /\ 0 <= activeIndex /\ activeIndex <= stepCount - 1
        /\ Cardinality(ActiveGroups) = 1

\* the part of C28 that holds: once the [stepCount] effect of the last
\* render has run, activeIndex is a rendered step and exactly one group is
\* active
ActiveIndexInRangeAfterEffect ==
    (stepCount > 0 /\ ~effectPending) =>
        /\ 0 <= activeIndex /\ activeIndex <= stepCount - 1
        /\ Cardinality(ActiveGroups) = 1

\* a render with fewer steps, before its [stepCount] effect: no step and no
\* group is active
NoActiveStepRendered ==
    /\ kind = "vertical"
    /\ stepCount = 2
    /\ activeIndex = 4
    /\ effectPending
    /\ ActiveGroups = {}

---------------------------------------------------------------------------
(* StickySide: C25, checked under SpecStickyProgress, and C26, checked     *)
(* under SpecSticky                                                       *)

\* the local progress of the member at offset k, clamped to [0,1]; a member
\* without a registered progress source counts as 0
LocalProgress(group, progressMap, k) ==
    LET stepIndex == group.startIndex + k
        r == IF stepIndex \in DOMAIN progressMap THEN progressMap[stepIndex] ELSE 0
    IN  IF r < 0 THEN 0 ELSE IF r > StickyDen THEN StickyDen ELSE r

\* C25: each time the progress of a StickySide media group is recomputed it
\* is the maximum of (k + r) / groupSize over the members at offset k with
\* clamped local progress r, members with k > 0 and r = 0 skipped and
\* members without a registered source counted as r = 0; it lies in [0,1],
\* is 0 when no member has positive progress, and is 1 only when the last
\* member's local progress is 1.
C25_GroupProgressIsMaxOverMembers ==
    geo.op = "updateProgress" =>
        LET group == geo.args.group
            progressMap == geo.args.progressMap
            size == Len(group.stepIndices)
            counted == {k \in 0 .. size - 1 :
                            k = 0 \/ LocalProgress(group, progressMap, k) > 0}
            scaled == {k * StickyDen + LocalProgress(group, progressMap, k) : k \in counted}
            r == geo.result
        IN  /\ r.den = StickyDen * size
            /\ r.num \in scaled /\ \A x \in scaled : x <= r.num
            /\ 0 <= r.num /\ r.num <= r.den
            /\ (\A k \in 0 .. size - 1 : LocalProgress(group, progressMap, k) = 0)
                  => r.num = 0
            /\ r.num = r.den => LocalProgress(group, progressMap, size - 1) = StickyDen

\* a group of three steps from step 1 on: the first member at 1, the second
\* not registered, the third at 0.5: the progress is 2.5 / 3
C25_Witness ==
    /\ geo.op = "updateProgress"
    /\ geo.args.group.stepIndices = <<1, 2, 3>>
    /\ geo.args.progressMap = [i \in {1, 3} |-> IF i = 1 THEN 100 ELSE 50]
    /\ geo.result = [num |-> 250, den |-> 300]

\* C26: in StickySide the active step is a function of the latest progress
\* value of every step: two histories of progress events that end with the
\* same latest value for every step leave the same activeIndex.
C26_ActiveStepOfLatestValues ==
    (Len(sticky) = 2 /\ sticky[1].scrollYProgress = sticky[2].scrollYProgress)
        => sticky[1].activeIndex = sticky[2].activeIndex

\* card 1 of the first component went to 0.36 and back to 0.2, card 1 of the
\* second went to 0.2: the same latest values, another active step
SameValuesOtherActiveStep ==
    /\ Len(sticky) = 2
    /\ sticky[1].scrollYProgress = <<0, 20>>
    /\ sticky[2].scrollYProgress = <<0, 20>>
    /\ sticky[1].activeIndex = 1
    /\ sticky[2].activeIndex = 0

===========================================================================
